---- MODULE Spec2Model ----
(***************************************************************************)
(* Model of the TB inference service (backend/cloud-backend/               *)
(* inference-service/app): the claim transaction, the infer request        *)
(* handler and the result writers, over a Firestore-like record store.     *)
(*                                                                         *)
(* A stored document is a record with an `exists` flag; its `ai` sub-map   *)
(* is a function whose DOMAIN is the set of fields present, so that        *)
(* DELETE_FIELD and merge writes are modelled by what they do to the map.  *)
(* Scores are integers in units of 1e-5.                                   *)
(***************************************************************************)
EXTENDS Integers, Sequences, FiniteSets, TLC

\* ------------------------------------------------------------------ bounds
NumWorkers == 2
MaxDeliveries == 3
MaxCalls == 3

\* request handlers that run concurrently; each delivery goes to one of the
\* deployed service processes and runs with that process's settings
Workers == 1 .. NumWorkers
Patients == {"p1"}
Versions == {"v1", "v2"}

\* --------------------------------------------------------- program constants
MaxErrLen == 2000
HighThreshold == 70000
MediumThreshold == 40000

\* ------------------------------------------------------------------ helpers
Min(a, b) == IF a <= b THEN a ELSE b

EmptyMap == <<>>

\* dict.get(key) on a map whose DOMAIN is the set of present keys; None is <<>>
Get(m, k) == IF k \in DOMAIN m THEN <<m[k]>> ELSE <<>>

\* Firestore update/merge of the field paths in kv, then DELETE_FIELD of del
MergeFields(m, kv, del) ==
  LET keys == (DOMAIN m \cup DOMAIN kv) \ del
  IN  [k \in keys |-> IF k \in DOMAIN kv THEN kv[k] ELSE m[k]]

\* ------------------------------------------------------------ pure functions
\* a ladder whose lower bounds are exclusive
RiskLevel_ExclusiveBounds(score) ==
  IF score > HighThreshold THEN "HIGH"
  ELSE IF score > MediumThreshold THEN "MEDIUM"
  ELSE "LOW"

\* inference_pipeline._risk_level
RiskLevel(score) ==
  IF score >= HighThreshold THEN "HIGH"
  ELSE IF score >= MediumThreshold THEN "MEDIUM"
  ELSE "LOW"

\* Python round(x, 4) on a score held in units of 1e-5
Round4(x) == ((x + 5) \div 10) * 10

\* the error text stored whole
Truncate_None(msg) == msg

\* str(exc)[:2000]; a message is <<text id, length>>
Truncate(msg) == <<msg[1], Min(msg[2], MaxErrLen)>>


\* ------------------------------------------------------- rule-based actions
\* _to_upper(clinical.get("cough_nature")) etc. are held upper-cased in the
\* model's clinical record; an optional number is <<>> (None) or <<n>>.
\* an answer counted as yes only when spelled Y, TRUE or 1
IsYes_NotSpelledOut(value) == value \in {"Y", "TRUE", "1"}

IsYes(value) == value \in {"YES", "Y", "TRUE", "1"}

\* the tier blocks with their first two actions exchanged
TierActions_Exchanged(level) ==
  IF level = "HIGH" THEN <<"HIGH_SOURCE_CONTROL", "HIGH_TEST_SAME_DAY", "HIGH_PRIORITIZE">>
  ELSE IF level = "MEDIUM" THEN <<"MEDIUM_MASK_HYGIENE", "MEDIUM_TEST_24_48H", "MEDIUM_ESCALATE">>
  ELSE <<"LOW_COUGH_HYGIENE", "LOW_MONITOR_2_WEEKS", "LOW_FAST_TRACK">>

TierActions(level) ==
  IF level = "HIGH" THEN <<"HIGH_TEST_SAME_DAY", "HIGH_SOURCE_CONTROL", "HIGH_PRIORITIZE">>
  ELSE IF level = "MEDIUM" THEN <<"MEDIUM_TEST_24_48H", "MEDIUM_MASK_HYGIENE", "MEDIUM_ESCALATE">>
  ELSE <<"LOW_MONITOR_2_WEEKS", "LOW_COUGH_HYGIENE", "LOW_FAST_TRACK">>

\* "2 weeks" in item, for the English texts of the action ids
MentionsTwoWeeks_OnlyWorkUp(item) == item = "PERSISTENT_COUGH_2_WEEKS"

MentionsTwoWeeks(item) == item \in {"LOW_MONITOR_2_WEEKS", "PERSISTENT_COUGH_2_WEEKS"}

\* no truncation
FirstN_All(s, n) == s

FirstN(s, n) == SubSeq(s, 1, Min(Len(s), n))

\* a physical-sign tag is the sequence of its characters
\* str.lower() on the letters the tags are written in
Lower(c) ==
  CASE c = "A" -> "a" [] c = "B" -> "b" [] c = "E" -> "e" [] c = "F" -> "f"
    [] c = "H" -> "h" [] c = "N" -> "n" [] c = "O" -> "o" [] c = "R" -> "r"
    [] c = "S" -> "s" [] c = "T" -> "t" [] OTHER -> c

LowerAlnum ==
  {"a", "b", "c", "d", "e", "f", "g", "h", "i", "j", "k", "l", "m", "n", "o", "p", "q",
   "r", "s", "t", "u", "v", "w", "x", "y", "z", "0", "1", "2", "3", "4", "5", "6", "7",
   "8", "9"}

\* a tag normalized without lower-casing it first
NormalizeSign_CaseSensitive(tag) ==
  SelectSeq(tag, LAMBDA c : c \in LowerAlnum)

\* inference_pipeline._build_rule_actions lines 148-149:
\* re.sub(r"[^a-z0-9]", "", str(item).strip().lower())
NormalizeSign(tag) ==
  SelectSeq([i \in DOMAIN tag |-> Lower(tag[i])], LAMBDA c : c \in LowerAlnum)

ShortnessOfBreath == <<"s", "h", "o", "r", "t", "n", "e", "s", "s", "o", "f", "b", "r", "e", "a", "t", "h">>

\* inference_pipeline._build_rule_actions lines 133-227: the list of action
\* ids before the return; the English and the Hindi list are built by the same
\* appends, paired one to one
AppendedRuleActionIds(doc, final_score) ==
  LET risk_level == RiskLevel(final_score)
      clinical == doc.clinical
      cough_days == clinical.cough_duration_days
      high_temp_c == clinical.body_temperature_c
      weight_loss == IsYes(clinical.weight_loss)
      night_sweats == IsYes(clinical.night_sweats)
      has_blood0 == clinical.cough_nature = "BLOOD_STAINED"
      has_high_fever == high_temp_c # <<>> /\ high_temp_c[1] >= 385
      has_long_cough0 == cough_days # <<>> /\ cough_days[1] >= 14
      has_short_breath ==
        \E tag \in clinical.physical_signs : NormalizeSign(tag) = ShortnessOfBreath
      has_blood == has_blood0 \/ "HEMOPTYSIS" \in doc.symptom_codes
      has_long_cough == has_long_cough0 \/ ("COUGH" \in doc.symptom_codes /\ cough_days = <<>>)
      red_flag == has_blood \/ has_short_breath
      a1 == IF red_flag THEN <<"URGENT_REFERRAL">> ELSE <<>>
      a2 == a1 \o TierActions(risk_level)
      a3 == IF has_long_cough /\ ~(\E i \in 1 .. Len(a2) : MentionsTwoWeeks(a2[i]))
            THEN Append(a2, "PERSISTENT_COUGH_2_WEEKS") ELSE a2
      a4 == IF has_high_fever \/ weight_loss \/ night_sweats
            THEN Append(a3, "DOCUMENT_VITALS") ELSE a3
  IN  a4

\* line 230: return en[:5], hi[:5]; here cut to 4
RuleActionIds_FirstFour(doc, final_score) == FirstN(AppendedRuleActionIds(doc, final_score), 4)

RuleActionIds(doc, final_score) == FirstN(AppendedRuleActionIds(doc, final_score), 5)

InLanguage(lang, ids) == [i \in 1 .. Len(ids) |-> <<lang, ids[i]>>]

BuildRuleActions(doc, final_score) ==
  LET ids == RuleActionIds(doc, final_score)
  IN  [en |-> InLanguage("en", ids), hi |-> InLanguage("hi", ids)]

\* ------------------------------------------- the other users of the ladder
\* backfill_rule_actions: its own copies of the ladder and of the rules; the
\* thresholds in units of 1e-5
BackfillHighThreshold == 70000
BackfillMediumThreshold == 40000

\* a backfill that still uses an older ladder
BackfillRiskLevel_OldLadder(score_0_to_1) ==
  IF score_0_to_1 >= 75000 THEN "HIGH"
  ELSE IF score_0_to_1 >= 45000 THEN "MEDIUM"
  ELSE "LOW"

\* backfill_rule_actions._risk_level
BackfillRiskLevel(score_0_to_1) ==
  IF score_0_to_1 >= BackfillHighThreshold THEN "HIGH"
  ELSE IF score_0_to_1 >= BackfillMediumThreshold THEN "MEDIUM"
  ELSE "LOW"

\* backfill_rule_actions._build_rule_actions; its action texts are, string for
\* string, those of the inference pipeline, so the same ids stand for them
BackfillRuleActionIds(doc, score_0_to_1) ==
  LET risk_level == BackfillRiskLevel(score_0_to_1)
      clinical == doc.clinical
      cough_days == clinical.cough_duration_days
      high_temp_c == clinical.body_temperature_c
      weight_loss == IsYes(clinical.weight_loss)
      night_sweats == IsYes(clinical.night_sweats)
      has_blood0 == clinical.cough_nature = "BLOOD_STAINED"
      has_high_fever == high_temp_c # <<>> /\ high_temp_c[1] >= 385
      has_long_cough0 == cough_days # <<>> /\ cough_days[1] >= 14
      normalized_signs == {NormalizeSign(tag) : tag \in clinical.physical_signs}
      has_short_breath == ShortnessOfBreath \in normalized_signs
      has_blood == has_blood0 \/ "HEMOPTYSIS" \in doc.symptom_codes
      has_long_cough == has_long_cough0 \/ ("COUGH" \in doc.symptom_codes /\ cough_days = <<>>)
      red_flag == has_blood \/ has_short_breath
      a1 == IF red_flag THEN <<"URGENT_REFERRAL">> ELSE <<>>
      a2 == a1 \o TierActions(risk_level)
      a3 == IF has_long_cough /\ ~(\E i \in 1 .. Len(a2) : MentionsTwoWeeks(a2[i]))
            THEN Append(a2, "PERSISTENT_COUGH_2_WEEKS") ELSE a2
      a4 == IF has_high_fever \/ weight_loss \/ night_sweats
            THEN Append(a3, "DOCUMENT_VITALS") ELSE a3
  IN  FirstN(a4, 5)

BackfillBuildRuleActions(doc, score_0_to_1) ==
  LET ids == BackfillRuleActionIds(doc, score_0_to_1)
  IN  [en |-> InLanguage("en", ids), hi |-> InLanguage("hi", ids)]

\* backend/main.py get_risk_level, on the 0-10 scale in units of 1e-3
SyncHighThreshold == 7000
SyncMediumThreshold == 4000

GetRiskLevel(score) ==
  IF score >= SyncHighThreshold THEN "HIGH"
  ELSE IF score >= SyncMediumThreshold THEN "MEDIUM"
  ELSE "LOW"

\* inference_pipeline.run_tb_inference lines 381-392: the payload, with the
\* outputs of the external capabilities (prob_a, prob_m, final_score and the
\* two summaries) as parameters
RunTbInference(doc, model_version, prob_a, prob_m, final_score, summary_en, summary_hi) ==
  LET actions == BuildRuleActions(doc, final_score)
  IN  [hear_score |-> Round4(prob_a),
       risk_score |-> Round4(final_score),
       risk_level |-> RiskLevel(final_score),
       medgemini_summary_en |-> summary_en,
       medgemini_summary_hi |-> summary_hi,
       action_items_en |-> actions.en,
       action_items_hi |-> actions.hi,
       actions_source |-> "rule_based_v1",
       model_version |-> model_version,
       clinical_score |-> Round4(prob_m)]

\* ------------------------------------------------------------ record store
EmptyClinical ==
  [cough_nature |-> "", cough_duration_days |-> <<>>, body_temperature_c |-> <<>>,
   weight_loss |-> "", night_sweats |-> "", physical_signs |-> {}]

\* a document that does not exist (snap.exists is False)
NoDoc ==
  [exists |-> FALSE, ai |-> EmptyMap, audio |-> <<>>, clinical |-> EmptyClinical,
   symptom_codes |-> {}, demographics |-> [age |-> <<>>]]

\* mutant of AlreadyDone: a FAILED result for the target version counts as done
AlreadyDone_AnyTerminal(ai, target_model_version) ==
  /\ Get(ai, "model_version") = <<target_model_version>>
  /\ Get(ai, "inference_status") \in {<<"SUCCESS">>, <<"FAILED">>}

\* firestore_repo.mark_processing_if_needed line 28
AlreadyDone(ai, target_model_version) ==
  /\ Get(ai, "model_version") = <<target_model_version>>
  /\ Get(ai, "inference_status") = <<"SUCCESS">>

\* a claim check that never treats a PROCESSING record as held
InProgress_Never(ai, target_model_version) == FALSE

\* firestore_repo.mark_processing_if_needed line 31
InProgress(ai, target_model_version) ==
  /\ Get(ai, "model_version") = <<target_model_version>>
  /\ Get(ai, "inference_status") = <<"PROCESSING">>

\* mutant of ClaimUpdate: the previous error_message is not deleted
ClaimUpdate_KeepsError(ai, target_model_version, ts) ==
  MergeFields(ai,
              [model_version |-> target_model_version,
               inference_status |-> "PROCESSING",
               processing_started_at |-> ts],
              {})

\* firestore_repo.mark_processing_if_needed lines 34-42: txn.update
ClaimUpdate(ai, target_model_version, ts) ==
  MergeFields(ai,
              [model_version |-> target_model_version,
               inference_status |-> "PROCESSING",
               processing_started_at |-> ts],
              {"error_message"})

\* mutant of MarkProcessingIfNeeded: the update is issued before the
\* in-progress test, so a skipped claim restarts processing_started_at
MarkProcessingIfNeeded_UpdatesOnSkip(doc, target_model_version, ts) ==
  IF ~doc.exists
  THEN [status |-> "NOT_FOUND", doc |-> NoDoc, commit |-> doc]
  ELSE IF AlreadyDone(doc.ai, target_model_version)
  THEN [status |-> "SKIP_ALREADY_DONE", doc |-> doc, commit |-> doc]
  ELSE [status |-> IF InProgress(doc.ai, target_model_version)
                   THEN "SKIP_IN_PROGRESS" ELSE "PROCESSING_CLAIMED",
        doc |-> doc,
        commit |-> [doc EXCEPT !.ai = ClaimUpdate(doc.ai, target_model_version, ts)]]

\* firestore_repo.mark_processing_if_needed, the body of the transaction:
\* the status and document returned, and the document the transaction commits
MarkProcessingIfNeeded(doc, target_model_version, ts) ==
  IF ~doc.exists
  THEN [status |-> "NOT_FOUND", doc |-> NoDoc, commit |-> doc]
  ELSE IF AlreadyDone(doc.ai, target_model_version)
  THEN [status |-> "SKIP_ALREADY_DONE", doc |-> doc, commit |-> doc]
  ELSE IF InProgress(doc.ai, target_model_version)
  THEN [status |-> "SKIP_IN_PROGRESS", doc |-> doc, commit |-> doc]
  ELSE [status |-> "PROCESSING_CLAIMED",
        doc |-> doc,
        commit |-> [doc EXCEPT !.ai = ClaimUpdate(doc.ai, target_model_version, ts)]]

\* mutant of WriteSuccess: hear_score is added to the stored one (an increment
\* transform) instead of replacing it
WriteSuccess_IncrementsScore(doc, payload, ts) ==
  [doc EXCEPT !.ai =
     MergeFields(doc.ai,
                 [hear_score |-> IF "hear_score" \in DOMAIN doc.ai
                                 THEN doc.ai.hear_score + payload.hear_score
                                 ELSE payload.hear_score,
                  risk_score |-> payload.risk_score,
                  risk_level |-> payload.risk_level,
                  medgemini_summary_en |-> payload.medgemini_summary_en,
                  medgemini_summary_hi |-> payload.medgemini_summary_hi,
                  medgemini_summary_i18n |-> [en |-> payload.medgemini_summary_en,
                                              hi |-> payload.medgemini_summary_hi],
                  medgemini_summary |-> payload.medgemini_summary_en,
                  generated_at |-> ts,
                  model_version |-> payload.model_version,
                  inference_status |-> "SUCCESS"],
                 {"error_message"})]

\* write_success that leaves a stored error_message in place
WriteSuccess_KeepsError(doc, payload, ts) ==
  [doc EXCEPT !.ai =
     MergeFields(doc.ai,
                 [hear_score |-> payload.hear_score,
                  risk_score |-> payload.risk_score,
                  risk_level |-> payload.risk_level,
                  medgemini_summary_en |-> payload.medgemini_summary_en,
                  medgemini_summary_hi |-> payload.medgemini_summary_hi,
                  medgemini_summary_i18n |-> [en |-> payload.medgemini_summary_en,
                                              hi |-> payload.medgemini_summary_hi],
                  medgemini_summary |-> payload.medgemini_summary_en,
                  generated_at |-> ts,
                  model_version |-> payload.model_version,
                  inference_status |-> "SUCCESS"],
                 {})]

\* firestore_repo.write_success: update() of an existing document
WriteSuccess(doc, payload, ts) ==
  [doc EXCEPT !.ai =
     MergeFields(doc.ai,
                 [hear_score |-> payload.hear_score,
                  risk_score |-> payload.risk_score,
                  risk_level |-> payload.risk_level,
                  medgemini_summary_en |-> payload.medgemini_summary_en,
                  medgemini_summary_hi |-> payload.medgemini_summary_hi,
                  medgemini_summary_i18n |-> [en |-> payload.medgemini_summary_en,
                                              hi |-> payload.medgemini_summary_hi],
                  medgemini_summary |-> payload.medgemini_summary_en,
                  generated_at |-> ts,
                  model_version |-> payload.model_version,
                  inference_status |-> "SUCCESS"],
                 {"error_message"})]

\* write_failure that also stores a default risk tier
WriteFailure_WritesRisk(doc, model_version, error_message, ts) ==
  [doc EXCEPT !.exists = TRUE,
              !.ai = MergeFields(doc.ai,
                                 [model_version |-> model_version,
                                  inference_status |-> "FAILED",
                                  error_message |-> Truncate(error_message),
                                  risk_score |-> 0,
                                  risk_level |-> "LOW",
                                  generated_at |-> ts],
                                 {})]

\* firestore_repo.write_failure: set(merge=True), which creates a missing document
WriteFailure(doc, model_version, error_message, ts) ==
  [doc EXCEPT !.exists = TRUE,
              !.ai = MergeFields(doc.ai,
                                 [model_version |-> model_version,
                                  inference_status |-> "FAILED",
                                  error_message |-> Truncate(error_message),
                                  generated_at |-> ts],
                                 {})]

\* storage.collect_audio_locations: the entries that resolve to a location
\* with a non-empty blob path, in input order
CollectAudioLocations(doc) ==
  SelectSeq(doc.audio, LAMBDA loc : loc.blob_path # "")

\* ------------------------------------------------------------------- state
\* config.Settings: the two version settings of a service process
Settings == [target_model_version : Versions, model_version : Versions]

\* outputs of the external capabilities, in units of 1e-5
ProbsA == {62000}
ProbsM == {58000}
FinalScores == {39990, 70000}
SummariesEn == {"summary_en"}
SummariesHi == {"summary_hi"}

\* str(exc) of the exceptions raised inside the try block
NoAudioError == <<"No downloadable audio found in patient audio metadata", 53>>
DownloadErrors == {<<"download failed", 15>>}
InferenceErrors == {<<"capability failed", 2500>>}
NotFoundError == <<"No document to update", 21>>

GoodAudio == [bucket |-> "bucket", blob_path |-> "audio/cough.wav"]
SampleClinical ==
  [cough_nature |-> "BLOOD_STAINED", cough_duration_days |-> <<20>>,
   body_temperature_c |-> <<372>>, weight_loss |-> "NO", night_sweats |-> "",
   physical_signs |-> {}]

\* the documents a patient record starts as: no AI-result yet
SampleDemographics == [age |-> <<42>>]

InitialDocs ==
  {[exists |-> TRUE, ai |-> EmptyMap, audio |-> a, clinical |-> SampleClinical,
    symptom_codes |-> {}, demographics |-> SampleDemographics] : a \in {<<>>, <<GoodAudio>>}}

NoRequest == [patient_id |-> "", target_model_version |-> ""]
NoSettings == [target_model_version |-> "", model_version |-> ""]
\* the fields of the claimed document that infer() goes on to read
\* (storage.collect_audio_locations, inference_pipeline._build_rule_actions)
ReadFields(doc) ==
  [audio |-> doc.audio, clinical |-> doc.clinical, symptom_codes |-> doc.symptom_codes,
   demographics |-> doc.demographics]

\* inference_pipeline lines 59 and 301: an absent age is carried as NaN, and
\* int(NaN) raises while the prompt of the summary is built
NanToIntError == <<"cannot convert float NaN to integer", 35>>
PromptRaises(doc) == doc.demographics.age = <<>>

NoPatientDoc == ReadFields(NoDoc)
NoPayload == <<>>
NoError == <<>>
NoResponse == [to |-> 0, code |-> 0, ok |-> FALSE, status |-> ""]

NoRun == [doc |-> NoDoc, resp |-> NoResponse, log |-> <<>>]
NoRuns == [first |-> NoRun, second |-> NoRun]

NoCall == [n |-> 0, op |-> "", args |-> <<>>, ret |-> <<>>, repeat |-> FALSE]

VARIABLES
  store,       \* patients collection: patient id -> document
  now,         \* the server clock behind SERVER_TIMESTAMP
  services,    \* the settings of the deployed service processes
  pc,          \* where each request handler is in infer()
  settings,    \* the settings of the process a handler runs in
  req,         \* InferRequest of the handler
  patient_doc, \* patient_doc: the document returned by the claim, see ReadFields
  ai_payload,  \* ai_payload: result of run_tb_inference
  exc,         \* the exception caught by the except clause
  resp,        \* the last response the service sent, and the handler that sent it
  delivered,   \* number of requests the task queue has delivered so far
  call,        \* the last direct call of a function (SpecRepo, SpecRiskLevel)
  tmp_files,   \* the files in the temporary directory (SpecTmp)
  tmp_paths,   \* tmp_paths of each handler (SpecTmp)
  paths,       \* the list download_audio_files is building (SpecTmp)
  attempts,    \* commit attempts of the handler's claim transaction (SpecContention)
  runs         \* the last request handled under two sets of headers (SpecHeaders)

vars == <<store, now, services, pc, settings, req, patient_doc, ai_payload, exc, resp,
          delivered, call, tmp_files, tmp_paths, paths, attempts, runs>>

\* the temporary files, which the steps that follow the store leave aside
tmpvars == <<tmp_files, tmp_paths, paths>>

\* no handler is running and nothing has been called
InitIdle ==
  /\ now = 1
  /\ pc = [w \in Workers |-> "idle"]
  /\ settings = [w \in Workers |-> NoSettings]
  /\ req = [w \in Workers |-> NoRequest]
  /\ patient_doc = [w \in Workers |-> NoPatientDoc]
  /\ ai_payload = [w \in Workers |-> NoPayload]
  /\ exc = [w \in Workers |-> NoError]
  /\ resp = NoResponse
  /\ delivered = 0
  /\ tmp_files = {}
  /\ tmp_paths = [w \in Workers |-> <<>>]
  /\ paths = [w \in Workers |-> <<>>]
  /\ attempts = [w \in Workers |-> 0]
  /\ runs = NoRuns

InitCommon ==
  /\ store \in [Patients -> InitialDocs \cup {NoDoc}]
  /\ call = NoCall
  /\ InitIdle

\* a pure function is about to be applied to one of the given argument lists
InitInputs(inputs) ==
  /\ store = [p \in Patients |-> NoDoc]
  /\ services = Settings
  /\ call \in {[NoCall EXCEPT !.args = a] : a \in inputs}
  /\ InitIdle

Init == InitCommon /\ services = Settings

\* every deployed process is configured with the same target version
InitOneTarget ==
  /\ InitCommon
  /\ \E t \in Versions : services = {s \in Settings : s.target_model_version = t}

\* a handler that answers an in-progress record with an HTTP error
Response_SkipIsError(w, code, status) ==
  [to |-> w,
   code |-> IF status = "SKIP_IN_PROGRESS" THEN 409 ELSE code,
   ok |-> code = 200 /\ status # "SKIP_IN_PROGRESS",
   status |-> status]

\* schemas.InferResponse (code 200), or the HTTPException raised (code 500)
Response(w, code, status) ==
  [to |-> w, code |-> code, ok |-> code = 200, status |-> status]

\* the handler returns or raises: its locals are gone
Finish(w, response) ==
  /\ pc' = [pc EXCEPT ![w] = "idle"]
  /\ resp' = response
  /\ settings' = [settings EXCEPT ![w] = NoSettings]
  /\ req' = [req EXCEPT ![w] = NoRequest]
  /\ patient_doc' = [patient_doc EXCEPT ![w] = NoPatientDoc]
  /\ ai_payload' = [ai_payload EXCEPT ![w] = NoPayload]
  /\ exc' = [exc EXCEPT ![w] = NoError]

\* infer() without the target version check of lines 48-63
InferBegin_NoVersionCheck(w) ==
  /\ pc[w] = "idle"
  /\ delivered < MaxDeliveries
  /\ delivered' = delivered + 1
  /\ \E s \in services, p \in Patients, tv \in Versions :
       /\ pc' = [pc EXCEPT ![w] = "claim"]
       /\ settings' = [settings EXCEPT ![w] = s]
       /\ req' = [req EXCEPT ![w] = [patient_id |-> p, target_model_version |-> tv]]
       /\ resp' = resp
       /\ UNCHANGED <<patient_doc, ai_payload, exc>>
  /\ UNCHANGED <<store, now, services, call>>
  /\ UNCHANGED <<tmpvars, attempts, runs>>

\* main.infer lines 42-63: a request is delivered to a process; a request whose
\* target version is not the process's is answered without touching the store
InferBegin(w) ==
  /\ pc[w] = "idle"
  /\ delivered < MaxDeliveries
  /\ delivered' = delivered + 1
  /\ \E s \in services, p \in Patients, tv \in Versions :
       IF tv # s.target_model_version
       THEN Finish(w, Response(w, 200, "SKIP_TARGET_VERSION_MISMATCH"))
       ELSE /\ pc' = [pc EXCEPT ![w] = "claim"]
            /\ settings' = [settings EXCEPT ![w] = s]
            /\ req' = [req EXCEPT ![w] = [patient_id |-> p, target_model_version |-> tv]]
            /\ resp' = resp
            /\ UNCHANGED <<patient_doc, ai_payload, exc>>
  /\ UNCHANGED <<store, now, services, call>>
  /\ UNCHANGED <<tmpvars, attempts, runs>>

\* main.infer lines 65-93: the claim transaction and the skip responses. The
\* claimed document is never an empty dict here, so `claim.get("doc") or
\* get_patient(...)` takes the claimed document and SKIP_NOT_FOUND_POST_CLAIM
\* is not returned.
Claim(w) ==
  /\ pc[w] = "claim"
  /\ LET p == req[w].patient_id
         r == MarkProcessingIfNeeded(store[p], req[w].target_model_version, now)
     IN  /\ store' = [store EXCEPT ![p] = r.commit]
         /\ IF r.status = "PROCESSING_CLAIMED"
            THEN /\ now' = now + 1
                 /\ patient_doc' = [patient_doc EXCEPT ![w] = ReadFields(r.doc)]
                 /\ pc' = [pc EXCEPT ![w] = "download"]
                 /\ UNCHANGED <<settings, req, ai_payload, exc, resp>>
            ELSE /\ now' = now
                 /\ Finish(w, Response(w, 200, IF r.status = "NOT_FOUND"
                                            THEN "SKIP_NOT_FOUND" ELSE r.status))
  /\ UNCHANGED <<services, delivered, call>>
  /\ attempts' = [attempts EXCEPT ![w] = 0]
  /\ UNCHANGED <<tmpvars, runs>>

\* main.infer lines 95-99: download_audio_files, which may raise
Download(w) ==
  /\ pc[w] = "download"
  /\ LET locations == CollectAudioLocations(patient_doc[w])
     IN  \/ /\ locations = <<>>
            /\ exc' = [exc EXCEPT ![w] = NoAudioError]
            /\ pc' = [pc EXCEPT ![w] = "except"]
         \/ /\ locations # <<>>
            /\ exc' = exc
            /\ pc' = [pc EXCEPT ![w] = "infer"]
         \/ /\ locations # <<>>
            /\ \E e \in DownloadErrors : exc' = [exc EXCEPT ![w] = e]
            /\ pc' = [pc EXCEPT ![w] = "except"]
  /\ UNCHANGED <<store, now, services, settings, req, patient_doc, ai_payload, resp,
                 delivered, call>>
  /\ UNCHANGED <<tmpvars, attempts, runs>>

\* main.infer lines 101-107: get_models and run_tb_inference, which may raise:
\* a capability fails, or the record has no age
RunInference(w) ==
  /\ pc[w] = "infer"
  /\ \/ /\ \E pa \in ProbsA, pm \in ProbsM, fs \in FinalScores,
              sen \in SummariesEn, shi \in SummariesHi :
              ai_payload' = IF PromptRaises(patient_doc[w]) THEN ai_payload
                            ELSE [ai_payload EXCEPT ![w] =
                                    RunTbInference(patient_doc[w], settings[w].model_version,
                                                   pa, pm, fs, sen, shi)]
        /\ pc' = [pc EXCEPT ![w] = IF PromptRaises(patient_doc[w]) THEN "except" ELSE "write"]
        /\ exc' = IF PromptRaises(patient_doc[w])
                  THEN [exc EXCEPT ![w] = NanToIntError] ELSE exc
     \/ /\ \E e \in InferenceErrors : exc' = [exc EXCEPT ![w] = e]
        /\ pc' = [pc EXCEPT ![w] = "except"]
        /\ ai_payload' = ai_payload
  /\ UNCHANGED <<store, now, services, settings, req, patient_doc, resp, delivered, call>>
  /\ UNCHANGED <<tmpvars, attempts, runs>>

\* main.infer lines 108-128: write_success, then the SUCCESS response;
\* update() raises NotFound on a missing document
WriteSuccessStep(w) ==
  /\ pc[w] = "write"
  /\ LET p == req[w].patient_id
     IN  IF store[p].exists
         THEN /\ store' = [store EXCEPT ![p] = WriteSuccess(store[p], ai_payload[w], now)]
              /\ now' = now + 1
              /\ Finish(w, Response(w, 200, "SUCCESS"))
         ELSE /\ exc' = [exc EXCEPT ![w] = NotFoundError]
              /\ pc' = [pc EXCEPT ![w] = "except"]
              /\ UNCHANGED <<store, now, settings, req, patient_doc, ai_payload, resp>>
  /\ UNCHANGED <<services, delivered, call>>
  /\ UNCHANGED <<tmpvars, attempts, runs>>

\* main.infer lines 130-141: the except clause records the failure and raises
\* HTTPException(500)
WriteFailureStep(w) ==
  /\ pc[w] = "except"
  /\ LET p == req[w].patient_id
     IN  store' = [store EXCEPT ![p] =
                     WriteFailure(store[p], settings[w].model_version, exc[w], now)]
  /\ now' = now + 1
  /\ Finish(w, Response(w, 500, "inference failed"))
  /\ UNCHANGED <<services, delivered, call>>
  /\ UNCHANGED <<tmpvars, attempts, runs>>

Next ==
  \E w \in Workers :
    \/ InferBegin(w)
    \/ Claim(w)
    \/ Download(w)
    \/ RunInference(w)
    \/ WriteSuccessStep(w)
    \/ WriteFailureStep(w)

Spec == Init /\ [][Next]_vars

SpecOneTarget == InitOneTarget /\ [][Next]_vars

\* ------------------------------------------------ a worker that stops
\* main.infer lines 95-141: the process of a handler is killed between the
\* commit of its claim and its call of write_success or write_failure; nothing
\* of the handler runs afterwards (not the except clause, not the response)
Stop(w) ==
  /\ pc[w] \in {"download", "infer", "write", "except"}
  /\ pc' = [pc EXCEPT ![w] = "stopped"]
  /\ patient_doc' = [patient_doc EXCEPT ![w] = NoPatientDoc]
  /\ ai_payload' = [ai_payload EXCEPT ![w] = NoPayload]
  /\ exc' = [exc EXCEPT ![w] = NoError]
  /\ UNCHANGED <<store, now, services, settings, req, resp, delivered, call>>
  /\ UNCHANGED <<tmpvars, attempts, runs>>

NextStop ==
  \E w \in Workers :
    \/ InferBegin(w)
    \/ Claim(w)
    \/ Download(w)
    \/ RunInference(w)
    \/ WriteSuccessStep(w)
    \/ WriteFailureStep(w)
    \/ Stop(w)

\* every deployed process is configured with the same target version
SpecStopOneTarget == InitOneTarget /\ [][NextStop]_vars

\* ------------------------------------------- contention on the claim
\* main.py line 65 takes db.transaction() with the client's default number of
\* attempts; firestore.transactional (firestore_repo.py line 17) runs
\* mark_processing_if_needed and commits, and runs it again from the read when
\* the commit is aborted, until the attempts are used up and it raises
MaxAttempts == 5

\* a commit of the claim transaction that is aborted and, on the last attempt,
\* raised out of the handler
ClaimAborted_RecordsFailure(w) ==
  /\ pc[w] = "claim"
  /\ IF attempts[w] + 1 < MaxAttempts
     THEN /\ attempts' = [attempts EXCEPT ![w] = attempts[w] + 1]
          /\ UNCHANGED <<pc, settings, req, patient_doc, ai_payload, exc, resp>>
     ELSE /\ attempts' = [attempts EXCEPT ![w] = 0]
          /\ exc' = [exc EXCEPT ![w] = <<"Failed to commit transaction in 5 attempts", 42>>]
          /\ pc' = [pc EXCEPT ![w] = "except"]
          /\ UNCHANGED <<settings, req, patient_doc, ai_payload, resp>>
  /\ UNCHANGED <<store, now, services, delivered, call, tmpvars, runs>>

\* main.infer lines 65-66: one attempt of the claim transaction whose commit is
\* aborted by contention; nothing of it is written. The last attempt raises,
\* outside the try block of line 96, so the request fails with HTTP 500
ClaimAborted(w) ==
  /\ pc[w] = "claim"
  /\ IF attempts[w] + 1 < MaxAttempts
     THEN /\ attempts' = [attempts EXCEPT ![w] = attempts[w] + 1]
          /\ UNCHANGED <<pc, settings, req, patient_doc, ai_payload, exc, resp>>
     ELSE /\ attempts' = [attempts EXCEPT ![w] = 0]
          /\ Finish(w, Response(w, 500, "Internal Server Error"))
  /\ UNCHANGED <<store, now, services, delivered, call, tmpvars, runs>>

NextContention ==
  \E w \in Workers :
    \/ InferBegin(w)
    \/ Claim(w)
    \/ ClaimAborted(w)
    \/ Download(w)
    \/ RunInference(w)
    \/ WriteSuccessStep(w)
    \/ WriteFailureStep(w)

\* every deployed process is configured with the same target version
SpecContention == InitOneTarget /\ [][NextContention]_vars

\* ------------------------------------------------- the temporary files
\* The steps of infer() that create, read and remove temporary audio files
\* (main.py lines 95-143 with storage.py), followed file by file. The store
\* writes of the same handler are those of Spec and leave the files alone.
OtherAudio == [bucket |-> "bucket", blob_path |-> "audio/cough2.wav"]
UnresolvedAudio == [bucket |-> "bucket", blob_path |-> ""]
AudioLists == {<<>>, <<UnresolvedAudio>>, <<GoodAudio>>, <<GoodAudio, OtherAudio>>}

\* tempfile.mkstemp: a new file under a name that is not in use; the name
\* records the handler that made it
Mkstemp(w) ==
  [by |-> w,
   n |-> CHOOSE n \in 1 .. Cardinality(tmp_files) + 1 :
           /\ [by |-> w, n |-> n] \notin tmp_files
           /\ \A m \in 1 .. n - 1 : [by |-> w, n |-> m] \in tmp_files]

\* storage.cleanup_tmp_files: os.remove of every listed path
CleanupTmpFiles(files, listed) == files \ {listed[i] : i \in DOMAIN listed}

\* main.infer lines 86-97: the claimed document is at hand, tmp_paths = [] and
\* download_audio_files is called
TmpBegin(w) ==
  /\ pc[w] = "idle"
  /\ delivered < MaxDeliveries
  /\ delivered' = delivered + 1
  /\ \E a \in AudioLists :
       patient_doc' = [patient_doc EXCEPT ![w] = [NoPatientDoc EXCEPT !.audio = a]]
  /\ tmp_paths' = [tmp_paths EXCEPT ![w] = <<>>]
  /\ paths' = [paths EXCEPT ![w] = <<>>]
  /\ pc' = [pc EXCEPT ![w] = "downloading"]
  /\ UNCHANGED <<store, now, services, settings, req, ai_payload, exc, resp, call,
                 tmp_files, attempts, runs>>

\* storage.download_audio_to_tmp for the next location of the comprehension in
\* download_audio_files: mkstemp, then the download, which may raise; the
\* exception leaves download_audio_files, so the list built so far is dropped
\* and tmp_paths of the handler is still []
DownloadAudioToTmp(w) ==
  /\ pc[w] = "downloading"
  /\ Len(paths[w]) < Len(CollectAudioLocations(patient_doc[w]))
  /\ tmp_files' = tmp_files \cup {Mkstemp(w)}
  /\ \/ /\ paths' = [paths EXCEPT ![w] = Append(paths[w], Mkstemp(w))]
        /\ UNCHANGED <<pc, exc>>
     \/ /\ \E e \in DownloadErrors : exc' = [exc EXCEPT ![w] = e]
        /\ paths' = [paths EXCEPT ![w] = <<>>]
        /\ pc' = [pc EXCEPT ![w] = "cleanup"]
  /\ UNCHANGED <<store, now, services, settings, req, patient_doc, ai_payload, resp,
                 delivered, call, tmp_paths, attempts, runs>>

\* download_audio_files returns and main.infer line 97 assigns tmp_paths;
\* lines 98-99 raise when the list is empty
DownloadAudioFilesReturn(w) ==
  /\ pc[w] = "downloading"
  /\ Len(paths[w]) = Len(CollectAudioLocations(patient_doc[w]))
  /\ tmp_paths' = [tmp_paths EXCEPT ![w] = paths[w]]
  /\ paths' = [paths EXCEPT ![w] = <<>>]
  /\ IF paths[w] = <<>>
     THEN /\ exc' = [exc EXCEPT ![w] = NoAudioError]
          /\ pc' = [pc EXCEPT ![w] = "cleanup"]
     ELSE /\ exc' = exc
          /\ pc' = [pc EXCEPT ![w] = "scoring"]
  /\ UNCHANGED <<store, now, services, settings, req, patient_doc, ai_payload, resp,
                 delivered, call, tmp_files, attempts, runs>>

\* main.infer lines 101-108: inference over the downloaded files and
\* write_success, either of which may raise
TmpInference(w) ==
  /\ pc[w] = "scoring"
  /\ \/ exc' = exc
     \/ \E e \in InferenceErrors : exc' = [exc EXCEPT ![w] = e]
  /\ pc' = [pc EXCEPT ![w] = "cleanup"]
  /\ UNCHANGED <<store, now, services, settings, req, patient_doc, ai_payload, resp,
                 delivered, call, tmpvars, attempts, runs>>

\* main.infer lines 123-143: the finally clause runs cleanup_tmp_files(tmp_paths)
\* and the handler returns SUCCESS or raises HTTPException(500)
TmpFinally(w) ==
  /\ pc[w] = "cleanup"
  /\ tmp_files' = CleanupTmpFiles(tmp_files, tmp_paths[w])
  /\ tmp_paths' = [tmp_paths EXCEPT ![w] = <<>>]
  /\ IF exc[w] = NoError
     THEN Finish(w, Response(w, 200, "SUCCESS"))
     ELSE Finish(w, Response(w, 500, "inference failed"))
  /\ UNCHANGED <<store, now, services, delivered, call, paths, attempts, runs>>

NextTmp ==
  \E w \in Workers :
    \/ TmpBegin(w)
    \/ DownloadAudioToTmp(w)
    \/ DownloadAudioFilesReturn(w)
    \/ TmpInference(w)
    \/ TmpFinally(w)

SpecTmp == Init /\ [][NextTmp]_vars

\* --------------------------------------------------- the task headers
\* One request handled from start to end with nothing running in between, as a
\* function of the stored document, the process settings, the request body,
\* the two Cloud Tasks headers and what the download and the inference do:
\* the document it leaves, its response and the events it logs.
TaskNames == {"", "projects/p/locations/l/queues/q/tasks/t1"}
RetryCounts == {"0", "3"}
Outcomes == [error : {NoError} \cup DownloadErrors \cup InferenceErrors,
             final_score : FinalScores]

\* main.infer lines 65-141
InferFromClaim(doc, s, r, task_name, retry_count, env, ts) ==
  LET c == MarkProcessingIfNeeded(doc, r.target_model_version, ts)
      read == ReadFields(c.doc)
      err == IF CollectAudioLocations(read) = <<>> THEN NoAudioError ELSE env.error
      payload == RunTbInference(read, s.model_version,
                                CHOOSE pa \in ProbsA : TRUE, CHOOSE pm \in ProbsM : TRUE,
                                env.final_score,
                                CHOOSE sen \in SummariesEn : TRUE,
                                CHOOSE shi \in SummariesHi : TRUE)
  IN  IF c.status # "PROCESSING_CLAIMED"
      THEN [doc |-> c.commit,
            resp |-> Response(0, 200, IF c.status = "NOT_FOUND"
                                      THEN "SKIP_NOT_FOUND" ELSE c.status),
            log |-> <<>>]
      ELSE IF err # NoError
      THEN [doc |-> WriteFailure(c.commit, s.model_version, err, ts + 1),
            resp |-> Response(0, 500, "inference failed"),
            log |-> <<"inference_failed", retry_count, task_name>>]
      ELSE [doc |-> WriteSuccess(c.commit, payload, ts + 1),
            resp |-> Response(0, 200, "SUCCESS"),
            log |-> <<"inference_success", retry_count, task_name>>]

\* a handler that gives up on a task the queue has retried
InferRun_DropsRetries(doc, s, r, task_name, retry_count, env, ts) ==
  IF retry_count # "0"
  THEN [doc |-> doc, resp |-> Response(0, 200, "SKIP_RETRY_LIMIT"),
        log |-> <<"skip_retry_limit", task_name>>]
  ELSE IF r.target_model_version # s.target_model_version
  THEN [doc |-> doc, resp |-> Response(0, 200, "SKIP_TARGET_VERSION_MISMATCH"),
        log |-> <<"skip_target_version_mismatch", task_name>>]
  ELSE InferFromClaim(doc, s, r, task_name, retry_count, env, ts)

\* main.infer lines 43-143
InferRun(doc, s, r, task_name, retry_count, env, ts) ==
  IF r.target_model_version # s.target_model_version
  THEN [doc |-> doc, resp |-> Response(0, 200, "SKIP_TARGET_VERSION_MISMATCH"),
        log |-> <<"skip_target_version_mismatch", task_name>>]
  ELSE InferFromClaim(doc, s, r, task_name, retry_count, env, ts)

\* the same request is handled from the same store under two sets of headers;
\* the store goes on from the first handling
InferTwice(p) ==
  /\ delivered < MaxDeliveries
  /\ delivered' = delivered + 1
  /\ \E s \in services, tv \in Versions, env \in Outcomes,
        t1 \in TaskNames, t2 \in TaskNames, c1 \in RetryCounts, c2 \in RetryCounts :
       LET r == [patient_id |-> p, target_model_version |-> tv]
           a == InferRun(store[p], s, r, t1, c1, env, now)
           b == InferRun(store[p], s, r, t2, c2, env, now)
       IN  /\ runs' = [first |-> a, second |-> b]
           /\ store' = [store EXCEPT ![p] = a.doc]
  /\ now' = now + 2
  /\ UNCHANGED <<services, pc, settings, req, patient_doc, ai_payload, exc, resp, call,
                 tmpvars, attempts>>

NextHeaders == \E p \in Patients : InferTwice(p)

SpecHeaders == Init /\ [][NextHeaders]_vars

\* ------------------------------------------- the repository called directly
\* The functions of firestore_repo applied one after another by a caller that
\* is not the infer handler (a test of the repository): every order of calls
\* and every argument from the sets below.
RepoPayloads ==
  {RunTbInference(d, v, pa, pm, fs, sen, shi) :
     d \in {ReadFields(x) : x \in InitialDocs}, v \in Versions, pa \in ProbsA,
     pm \in ProbsM, fs \in FinalScores, sen \in SummariesEn, shi \in SummariesHi}

RepoErrors == {NoAudioError} \cup InferenceErrors

\* the call made, what it returned, and whether it repeats the call before it
Called(op, args, ret) ==
  [n |-> call.n + 1, op |-> op, args |-> args, ret |-> ret,
   repeat |-> call.op = op /\ call.args = args]

RepoFrame ==
  UNCHANGED <<services, pc, settings, req, patient_doc, ai_payload, exc, resp, delivered,
              tmpvars, attempts, runs>>

RepoMarkProcessing(p, tv) ==
  /\ call.n < MaxCalls
  /\ LET r == MarkProcessingIfNeeded(store[p], tv, now)
     IN  /\ store' = [store EXCEPT ![p] = r.commit]
         /\ now' = IF r.status = "PROCESSING_CLAIMED" THEN now + 1 ELSE now
         /\ call' = Called("mark_processing_if_needed", <<p, tv>>, <<r.status, r.doc>>)
  /\ RepoFrame

RepoWriteSuccess(p, payload) ==
  /\ call.n < MaxCalls
  /\ IF store[p].exists
     THEN /\ store' = [store EXCEPT ![p] = WriteSuccess(store[p], payload, now)]
          /\ now' = now + 1
          /\ call' = Called("write_success", <<p, payload>>, <<"None">>)
     ELSE /\ UNCHANGED <<store, now>>
          /\ call' = Called("write_success", <<p, payload>>, <<"NotFound">>)
  /\ RepoFrame

RepoWriteFailure(p, model_version, error_message) ==
  /\ call.n < MaxCalls
  /\ store' = [store EXCEPT ![p] =
                 WriteFailure(store[p], model_version, error_message, now)]
  /\ now' = now + 1
  /\ call' = Called("write_failure", <<p, model_version, error_message>>, <<"None">>)
  /\ RepoFrame

NextRepo ==
  \E p \in Patients :
    \/ \E tv \in Versions : RepoMarkProcessing(p, tv)
    \/ \E payload \in RepoPayloads : RepoWriteSuccess(p, payload)
    \/ \E v \in Versions, e \in RepoErrors : RepoWriteFailure(p, v, e)

SpecRepo == Init /\ [][NextRepo]_vars

\* --------------------------------------------------- _risk_level called
\* scores in units of 1e-5: the values next to the two thresholds and a grid
\* over 0.0 .. 1.0
Scores == {39990, 40000, 40010, 69990, 70000, 70010} \cup {i * 5000 : i \in 0 .. 20}

CallRiskLevel(score) ==
  /\ call.n < MaxCalls
  /\ call' = Called("_risk_level", <<score>>, <<RiskLevel(score)>>)
  /\ UNCHANGED <<store, now>>
  /\ RepoFrame

NextRiskLevel == \E score \in Scores : CallRiskLevel(score)

SpecRiskLevel == Init /\ [][NextRiskLevel]_vars

\* ------------------------------------------------ the rules called directly
\* _build_rule_actions of the pipeline and of the backfill and get_risk_level
\* of the sync endpoint, each applied once to a record and a score
SignTags ==
  {<<"S", "h", "o", "r", "t", "n", "e", "s", "s", " ", "o", "f", " ", "B", "r", "e", "a", "t", "h">>,
   <<" ", "S", "H", "O", "R", "T", "N", "E", "S", "S", "_", "O", "F", "_", "B", "R", "E", "A", "T", "H", " ">>,
   <<"s", "h", "o", "r", "t", " ", "b", "r", "e", "a", "t", "h">>}

RuleClinicals ==
  [cough_nature : {"", "DRY", "BLOOD_STAINED"},
   cough_duration_days : {<<>>, <<13>>, <<14>>, <<20>>},
   body_temperature_c : {<<>>, <<384>>, <<385>>},
   weight_loss : {"NO", "YES"},
   night_sweats : {"", "YES"},
   physical_signs : {{}} \cup {{tag} : tag \in SignTags}]

RuleDocs ==
  [audio : {<<>>}, clinical : RuleClinicals,
   symptom_codes : {{}, {"HEMOPTYSIS"}, {"COUGH"}, {"FEVER"}}]

RuleScores == {0, 39990, 40000, 69990, 70000, 82000, 100000}

\* scores of the sync endpoint, 0.0 .. 10.0 in units of 1e-3
SyncScores == {3999, 4000, 6999, 7000} \cup {i * 500 : i \in 0 .. 20}

RuleInputs ==
  {<<doc, score>> : doc \in RuleDocs, score \in RuleScores}
    \cup {<<score>> : score \in SyncScores}

\* the function applied to the arguments drawn at the start
Applied(op, ret) == [call EXCEPT !.n = 1, !.op = op, !.ret = ret]

CallBuildRuleActions ==
  /\ call.n = 0
  /\ Len(call.args) = 2
  /\ call' = Applied("_build_rule_actions",
                     <<RiskLevel(call.args[2]),
                       BuildRuleActions(call.args[1], call.args[2])>>)
  /\ UNCHANGED <<store, now>>
  /\ RepoFrame

\* the two lists as they stand at line 229, before the return
CallAppendRuleActions ==
  /\ call.n = 0
  /\ Len(call.args) = 2
  /\ call' = Applied("_build_rule_actions:229",
                     <<RiskLevel(call.args[2]),
                       [en |-> InLanguage("en", AppendedRuleActionIds(call.args[1], call.args[2])),
                        hi |-> InLanguage("hi", AppendedRuleActionIds(call.args[1], call.args[2]))]>>)
  /\ UNCHANGED <<store, now>>
  /\ RepoFrame

CallBackfillRuleActions ==
  /\ call.n = 0
  /\ Len(call.args) = 2
  /\ call' = Applied("backfill._build_rule_actions",
                     <<BackfillRiskLevel(call.args[2]),
                       BackfillBuildRuleActions(call.args[1], call.args[2])>>)
  /\ UNCHANGED <<store, now>>
  /\ RepoFrame

CallGetRiskLevel ==
  /\ call.n = 0
  /\ Len(call.args) = 1
  /\ call' = Applied("get_risk_level", <<GetRiskLevel(call.args[1])>>)
  /\ UNCHANGED <<store, now>>
  /\ RepoFrame

NextRules ==
  \/ CallBuildRuleActions
  \/ CallAppendRuleActions
  \/ CallBackfillRuleActions
  \/ CallGetRiskLevel

InitRules == InitInputs(RuleInputs)

SpecRules == InitRules /\ [][NextRules]_vars

\* ------------------------------------------------ the final score
\* models.get_models lines 102-122 and run_tb_inference lines 361-370: the
\* bundle is loaded with the supervisor model or get_models raises; the final
\* score is the supervisor's output. A missing supervisor is <<>>.
FusionProbs == {i * 25000 : i \in 0 .. 4}
FusionInputs ==
  {<<prob_a, prob_m, cal_supervisor>> :
     prob_a \in FusionProbs, prob_m \in FusionProbs,
     cal_supervisor \in {<<>>} \cup {<<s>> : s \in {0, 41230, 100000}}}

\* what run_tb_inference, after get_models, gives for the final score: the
\* exception raised, or the score
FinalScore(prob_a, prob_m, cal_supervisor) ==
  IF cal_supervisor = <<>>
  THEN <<"RuntimeError", "Classical model components missing or failed to load">>
  ELSE <<"final_score", cal_supervisor[1]>>

CallFinalScore ==
  /\ call.n = 0
  /\ call' = Applied("final_score",
                     FinalScore(call.args[1], call.args[2], call.args[3]))
  /\ UNCHANGED <<store, now>>
  /\ RepoFrame

NextFusion == CallFinalScore

InitFusion == InitInputs(FusionInputs)

SpecFusion == InitFusion /\ [][NextFusion]_vars

\* ------------------------------------------------ audio references
\* storage.py on the text of the references: a string is the sequence of its
\* characters, a Python value is tagged with its type
Str(s) == [type |-> "str", v |-> s]
None == [type |-> "none", v |-> <<>>]
\* an int, by its digits
Number(digits) == [type |-> "int", v |-> digits]
List(items) == [type |-> "list", v |-> items]

\* bool(value)
Truthy(value) ==
  CASE value.type = "str" -> value.v # <<>>
    [] value.type = "int" -> value.v # <<"0">>
    [] value.type = "list" -> value.v # <<>>
    [] OTHER -> value.type = "dict"

\* a dict with its two keys read by .get(): an absent key reads None
Dict(storage_uri, storage_path) ==
  [type |-> "dict", storage_uri |-> storage_uri, storage_path |-> storage_path]
NotDict(value) == [type |-> value.type, storage_uri |-> None, storage_path |-> None]

StartsWith(s, p) == Len(s) >= Len(p) /\ SubSeq(s, 1, Len(p)) = p

\* p in s
Contains(s, p) == \E i \in 1 .. Len(s) - Len(p) + 1 : SubSeq(s, i, i + Len(p) - 1) = p

\* s.find(c) for c one of cs, counted from 1; 0 when there is none
FindFirst(s, cs) ==
  LET at == {i \in 1 .. Len(s) : s[i] \in cs}
  IN  IF at = {} THEN 0 ELSE CHOOSE i \in at : \A j \in at : i <= j

\* s.rfind(c), counted from 1; 0 when there is none
FindLast(s, c) ==
  LET at == {i \in 1 .. Len(s) : s[i] = c}
  IN  IF at = {} THEN 0 ELSE CHOOSE i \in at : \A j \in at : i >= j

From(s, i) == SubSeq(s, i, Len(s))

\* s.lstrip(c)
Lstrip(s, c) ==
  LET leading == {i \in 1 .. Len(s) : \A j \in 1 .. i : s[j] = c}
  IN  From(s, Cardinality(leading) + 1)

\* s.split(c)
RECURSIVE Split(_, _)
Split(s, c) ==
  LET i == FindFirst(s, {c})
  IN  IF i = 0 THEN <<s>> ELSE <<SubSeq(s, 1, i - 1)>> \o Split(From(s, i + 1), c)

\* c.join(parts)
RECURSIVE Join(_, _)
Join(parts, c) ==
  IF parts = <<>> THEN <<>>
  ELSE IF Len(parts) = 1 THEN parts[1]
  ELSE parts[1] \o <<c>> \o Join(Tail(parts), c)

\* parts.index(x), counted from 1; 0 for ValueError
Index(parts, x) ==
  LET at == {i \in 1 .. Len(parts) : parts[i] = x}
  IN  IF at = {} THEN 0 ELSE CHOOSE i \in at : \A j \in at : i <= j

\* the escapes urllib.parse.unquote decodes, among those the references use
Escapes ==
  (<<"2", "0">> :> " ") @@ (<<"2", "3">> :> "#") @@ (<<"2", "5">> :> "%")
    @@ (<<"2", "F">> :> "/") @@ (<<"3", "F">> :> "?")

RECURSIVE Unquote(_)
\* urllib.parse.unquote: each %XX becomes its character, once; a % that
\* starts no escape stays
Unquote(s) ==
  IF s = <<>> THEN <<>>
  ELSE IF s[1] = "%" /\ Len(s) >= 3 /\ <<s[2], s[3]>> \in DOMAIN Escapes
       THEN <<Escapes[<<s[2], s[3]>>]>> \o Unquote(From(s, 4))
       ELSE <<s[1]>> \o Unquote(Tail(s))

Letters ==
  {"a", "b", "c", "d", "e", "f", "g", "h", "i", "j", "k", "l", "m", "n", "o", "p", "q",
   "r", "s", "t", "u", "v", "w", "x", "y", "z"}
SchemeChars == LowerAlnum \cup {"+", "-", "."}

\* the part of s before the first of the characters cs, all of s without one
Before(s, cs) ==
  IF FindFirst(s, cs) = 0 THEN s ELSE SubSeq(s, 1, FindFirst(s, cs) - 1)

\* the part of s from the first of the characters cs on, nothing without one
FromFirstOf(s, cs) ==
  IF FindFirst(s, cs) = 0 THEN <<>> ELSE From(s, FindFirst(s, cs))

\* urlsplit: where the scheme of url ends, the place of its colon; 0 for no scheme
SchemeEnd(url) ==
  LET colon == FindFirst(url, {":"})
  IN  IF /\ colon > 1
         /\ url[1] \in Letters
         /\ \A j \in 1 .. colon - 1 : url[j] \in SchemeChars
      THEN colon ELSE 0

\* urlparse's _splitparams, for the schemes that take parameters: the path
\* ends at the first semicolon of its last segment
SplitParams(scheme, url) ==
  LET last_segment == FindLast(url, "/")
      semi == FindFirst(From(url, last_segment + 1), {";"})
  IN  IF scheme \in {<<"h", "t", "t", "p">>, <<"h", "t", "t", "p", "s">>} /\ semi # 0
      THEN SubSeq(url, 1, last_segment + semi - 1) ELSE url

\* urlsplit raises ValueError for a netloc with one square bracket and not
\* the other
Parsed(scheme, netloc, path) ==
  LET brackets == {c \in {"[", "]"} : \E i \in 1 .. Len(netloc) : netloc[i] = c}
  IN  IF Cardinality(brackets) = 1
      THEN [error |-> "ValueError", scheme |-> <<>>, netloc |-> <<>>, path |-> <<>>]
      ELSE [error |-> "", scheme |-> scheme, netloc |-> netloc, path |-> path]

\* urlsplit after the scheme: the netloc after //, up to the first of / ? #,
\* then the path, up to the fragment and the query
SplitNetloc(scheme, rest) ==
  IF StartsWith(rest, <<"/", "/">>)
  THEN Parsed(scheme, Before(From(rest, 3), {"/", "?", "#"}),
              SplitParams(scheme,
                Before(Before(FromFirstOf(From(rest, 3), {"/", "?", "#"}), {"#"}), {"?"})))
  ELSE Parsed(scheme, <<>>, SplitParams(scheme, Before(Before(rest, {"#"}), {"?"})))

\* urllib.parse.urlparse on a lower-case reference: scheme, netloc and path,
\* or the ValueError
Urlparse(url) ==
  SplitNetloc(SubSeq(url, 1, SchemeEnd(url) - 1), From(url, SchemeEnd(url) + 1))

\* the results of the resolver: a location, None, or the exception raised
AudioLocation(bucket, blob_path) == [kind |-> "location", bucket |-> bucket, blob_path |-> blob_path]
NoLocation == [kind |-> "None", bucket |-> <<>>, blob_path |-> <<>>]
Raised(error) == [kind |-> error, bucket |-> <<>>, blob_path |-> <<>>]

\* _from_gs_uri, lines 25-27, on the parsed reference
GsLocation(parsed) ==
  IF parsed.error # "" THEN Raised(parsed.error)
  ELSE IF parsed.scheme # <<"g", "s">> THEN NoLocation
  ELSE AudioLocation(parsed.netloc, Lstrip(parsed.path, "/"))

FromGsUri(uri) == GsLocation(Urlparse(uri))

\* _from_storage_googleapis_url, lines 35-38: path.split("/", 1)
BucketAndBlob(path) ==
  IF FindFirst(path, {"/"}) = 0 THEN NoLocation
  ELSE AudioLocation(Before(path, {"/"}), From(path, FindFirst(path, {"/"}) + 1))

\* _from_storage_googleapis_url, lines 32-34, on the parsed reference
StorageGoogleapisLocation(parsed) ==
  IF parsed.error # "" THEN Raised(parsed.error)
  ELSE IF parsed.netloc # <<"s", "t", "o", "r", "a", "g", "e", ".", "g", "o", "o", "g", "l", "e", "a", "p", "i", "s", ".", "c", "o", "m">> THEN NoLocation
  ELSE BucketAndBlob(Lstrip(parsed.path, "/"))

FromStorageGoogleapisUrl(url) == StorageGoogleapisLocation(Urlparse(url))

\* _from_firebase_download_url, lines 47-57, on the segments of the path
BucketAndObject(parts) ==
  LET b_idx == Index(parts, <<"b">>)
      o_idx == Index(parts, <<"o">>)
  IN  IF b_idx = 0 \/ o_idx = 0 THEN NoLocation
      ELSE IF Len(parts) <= b_idx \/ Len(parts) <= o_idx THEN NoLocation
      ELSE AudioLocation(parts[b_idx + 1], Unquote(Join(From(parts, o_idx + 1), "/")))

\* _from_firebase_download_url, lines 44-46, on the parsed reference
FirebaseLocation(parsed) ==
  IF parsed.error # "" THEN Raised(parsed.error)
  ELSE IF ~Contains(parsed.netloc, <<"f", "i", "r", "e", "b", "a", "s", "e", "s", "t", "o", "r", "a", "g", "e", ".", "g", "o", "o", "g", "l", "e", "a", "p", "i", "s", ".", "c", "o", "m">>) THEN NoLocation
  ELSE BucketAndObject(Split(parsed.path, "/"))

FromFirebaseDownloadUrl(url) == FirebaseLocation(Urlparse(url))

\* settings.storage_bucket
StorageBucket == <<"d", "e", "f", "a", "u", "l", "t", "-", "b", "u", "c", "k", "e", "t">>

\* first or _from_firebase_download_url(raw_uri): a location is truthy, an
\* exception raised by the first call is raised
OrFromFirebaseDownloadUrl(first, raw_uri) ==
  IF first.kind = "None" THEN FromFirebaseDownloadUrl(raw_uri) ELSE first

\* resolve_audio_location, lines 62-71, on the value read from the entry
ResolveRawUri(raw_uri) ==
  IF ~Truthy(raw_uri) \/ raw_uri.type # "str" THEN NoLocation
  ELSE IF StartsWith(raw_uri.v, <<"g", "s", ":", "/", "/">>) THEN FromGsUri(raw_uri.v)
  ELSE IF StartsWith(raw_uri.v, <<"h", "t", "t", "p", ":", "/", "/">>) \/ StartsWith(raw_uri.v, <<"h", "t", "t", "p", "s", ":", "/", "/">>)
       THEN OrFromFirebaseDownloadUrl(FromStorageGoogleapisUrl(raw_uri.v), raw_uri.v)
  ELSE AudioLocation(StorageBucket, Lstrip(raw_uri.v, "/"))

ResolveAudioLocation(audio_entry) ==
  ResolveRawUri(IF Truthy(audio_entry.storage_uri)
                THEN audio_entry.storage_uri ELSE audio_entry.storage_path)

\* collect_audio_locations on the value of the audio field: the locations, or
\* the exception that resolving an entry raised
\* lines 80-85: one entry of the loop, with what the rest of the loop gives
CollectEntry(entry, loc, rest) ==
  IF entry.type # "dict" THEN rest
  ELSE IF loc.kind \notin {"None", "location"} THEN [error |-> loc.kind, locations |-> <<>>]
  ELSE IF loc.kind = "location" /\ loc.blob_path # <<>> /\ rest.error = ""
       THEN [rest EXCEPT !.locations = <<loc>> \o @]
  ELSE rest

RECURSIVE CollectEntries(_)
CollectEntries(audio_entries) ==
  IF audio_entries = <<>> THEN [error |-> "", locations |-> <<>>]
  ELSE CollectEntry(Head(audio_entries), ResolveAudioLocation(Head(audio_entries)),
                    CollectEntries(Tail(audio_entries)))

CollectAudioLocationsOf(audio) ==
  IF audio.type # "list" THEN [error |-> "", locations |-> <<>>]
  ELSE CollectEntries(audio.v)

\* references as they are found in the records
References ==
  {<<"g", "s", ":", "/", "/", "b", "u", "c", "k", "e", "t">>,
   <<"g", "s", ":", "/", "/", "b", "u", "c", "k", "e", "t", "/">>,
   <<"g", "s", ":", "/", "/", "b", "u", "c", "k", "e", "t", "/", "a", ".", "w", "a", "v">>,
   <<"g", "s", ":", "/", "/", "b", "u", "c", "k", "e", "t", "/", "/", "a">>,
   <<"g", "s", ":", "/", "/", "[", "b", "/", "x">>,
   <<"g", "s", ":", "/", "/">>,
   <<"f", "t", "p", ":", "/", "/", "h", "/", "x">>,
   <<"s", "3", ":", "/", "/", "b", "u", "c", "k", "e", "t", "/", "a", ".", "w", "a", "v">>,
   <<"/">>,
   <<"/", "/">>,
   <<"a", "/", "b", ".", "w", "a", "v">>,
   <<"/", "a", "/", "b", ".", "w", "a", "v">>,
   <<"g", "s", ":", "/", "x">>,
   <<"h", "t", "t", "p", "s", ":", "/", "/", "[", "x", "/", "y">>,
   <<"h", "t", "t", "p", "s", ":", "/", "/", "e", "x", "a", "m", "p", "l", "e", ".", "c", "o", "m", "/", "x", "/", "y">>,
   <<"h", "t", "t", "p", "s", ":", "/", "/", "s", "t", "o", "r", "a", "g", "e", ".", "g", "o", "o", "g", "l", "e", "a", "p", "i", "s", ".", "c", "o", "m", "/", "b", "u", "c", "k", "e", "t">>,
   <<"h", "t", "t", "p", "s", ":", "/", "/", "s", "t", "o", "r", "a", "g", "e", ".", "g", "o", "o", "g", "l", "e", "a", "p", "i", "s", ".", "c", "o", "m", "/", "b", "u", "c", "k", "e", "t", "/">>,
   <<"h", "t", "t", "p", "s", ":", "/", "/", "s", "t", "o", "r", "a", "g", "e", ".", "g", "o", "o", "g", "l", "e", "a", "p", "i", "s", ".", "c", "o", "m", "/", "b", "u", "c", "k", "e", "t", "/", "a", "%", "2", "0", "b">>,
   <<"h", "t", "t", "p", ":", "/", "/", "s", "t", "o", "r", "a", "g", "e", ".", "g", "o", "o", "g", "l", "e", "a", "p", "i", "s", ".", "c", "o", "m", "/", "b", "u", "c", "k", "e", "t", "/", "a">>,
   <<"h", "t", "t", "p", "s", ":", "/", "/", "s", "t", "o", "r", "a", "g", "e", ".", "g", "o", "o", "g", "l", "e", "a", "p", "i", "s", ".", "c", "o", "m", "/", "b", "/", "a", ";", "x", "/", "y", ";", "z">>,
   <<"h", "t", "t", "p", "s", ":", "/", "/", "f", "i", "r", "e", "b", "a", "s", "e", "s", "t", "o", "r", "a", "g", "e", ".", "g", "o", "o", "g", "l", "e", "a", "p", "i", "s", ".", "c", "o", "m", "/", "v", "0", "/", "b", "/", "b", "u", "c", "k", "e", "t", "/", "o", "/", "a", "%", "2", "F", "b", "%", "2", "5", "2", "0", "c", "?", "a", "l", "t", "=", "m", "e", "d", "i", "a">>,
   <<"h", "t", "t", "p", "s", ":", "/", "/", "f", "i", "r", "e", "b", "a", "s", "e", "s", "t", "o", "r", "a", "g", "e", ".", "g", "o", "o", "g", "l", "e", "a", "p", "i", "s", ".", "c", "o", "m", "/", "v", "0", "/", "b", "/", "b", "u", "c", "k", "e", "t", "/", "o", "/">>,
   <<"h", "t", "t", "p", "s", ":", "/", "/", "f", "i", "r", "e", "b", "a", "s", "e", "s", "t", "o", "r", "a", "g", "e", ".", "g", "o", "o", "g", "l", "e", "a", "p", "i", "s", ".", "c", "o", "m", "/", "v", "0", "/", "b", "/", "b", "u", "c", "k", "e", "t", "/", "o">>,
   <<"h", "t", "t", "p", "s", ":", "/", "/", "f", "i", "r", "e", "b", "a", "s", "e", "s", "t", "o", "r", "a", "g", "e", ".", "g", "o", "o", "g", "l", "e", "a", "p", "i", "s", ".", "c", "o", "m", "/", "v", "0", "/", "b", "/", "b", "u", "c", "k", "e", "t">>,
   <<"h", "t", "t", "p", "s", ":", "/", "/", "f", "i", "r", "e", "b", "a", "s", "e", "s", "t", "o", "r", "a", "g", "e", ".", "g", "o", "o", "g", "l", "e", "a", "p", "i", "s", ".", "c", "o", "m", "/", "o", "/", "x", "/", "b", "/", "b", "u", "c", "k", "e", "t">>}

\* the four forms a location is written in
Forms == {"gs", "storage.googleapis.com", "firebase", "bare"}
Containers == {<<"b", "k", "t">>, <<"t", "b", ".", "o">>}
ObjectPaths ==
  {<<"a", ".", "w", "a", "v">>, <<"p", "1", "/", "c", ".", "w", "a", "v">>, <<"a", "%", "2", "0", "b">>, <<"a", " ", "b", ".", "w", "a", "v">>, <<"a", "#", "b">>, <<"a", "?", "b">>, <<"p", "/", "o", "/", "b", "/", "x">>}

\* urllib.parse.quote(s, safe=""), the inverse of Unquote
RECURSIVE Quote(_)
Quote(s) ==
  IF s = <<>> THEN <<>>
  ELSE IF s[1] \in LowerAlnum \cup {"_", ".", "-", "~"} THEN <<s[1]>> \o Quote(Tail(s))
  ELSE LET code == CHOOSE e \in DOMAIN Escapes : Escapes[e] = s[1]
       IN  <<"%">> \o code \o Quote(Tail(s))

\* a location written in one of the forms
Format(form, container, path) ==
  CASE form = "gs" -> <<"g", "s", ":", "/", "/">> \o container \o <<"/">> \o path
    [] form = "storage.googleapis.com" ->
         <<"h", "t", "t", "p", "s", ":", "/", "/", "s", "t", "o", "r", "a", "g", "e", ".", "g", "o", "o", "g", "l", "e", "a", "p", "i", "s", ".", "c", "o", "m", "/">> \o container \o <<"/">> \o path
    [] form = "firebase" ->
         <<"h", "t", "t", "p", "s", ":", "/", "/", "f", "i", "r", "e", "b", "a", "s", "e", "s", "t", "o", "r", "a", "g", "e", ".", "g", "o", "o", "g", "l", "e", "a", "p", "i", "s", ".", "c", "o", "m", "/", "v", "0", "/", "b", "/">> \o container \o <<"/", "o", "/">>
           \o Quote(path) \o <<"?", "a", "l", "t", "=", "m", "e", "d", "i", "a">>
    [] OTHER -> path

\* the container a form can name: the bare form names the default one only
FormContainers(form) == IF form = "bare" THEN {StorageBucket} ELSE Containers

Entries ==
  {Dict(Str(r), None) : r \in References}
    \cup {Dict(None, Str(r)) : r \in {<<"a", "/", "b", ".", "w", "a", "v">>, <<"g", "s", ":", "/", "/", "b", "u", "c", "k", "e", "t", "/", "a", ".", "w", "a", "v">>}}
    \cup {Dict(Number(<<"5">>), None), Dict(None, None), Dict(Str(<<>>), Str(<<"p", "/", "q">>)),
          Dict(Number(<<"5">>), Str(<<"p">>)), Dict(Number(<<"0">>), Str(<<"p">>))}

AudioFields ==
  {None, Str(<<"x">>), List(<<>>),
   List(<<NotDict(Str(<<"a">>)), Dict(Str(<<"g", "s", ":", "/", "/", "b">>), None), Dict(None, Str(<<"x", "/", "y">>)),
          NotDict(Number(<<"5">>)), Dict(Str(<<"g", "s", ":", "/", "/", "b", "/", "z">>), None)>>),
   List(<<Dict(Str(<<"h", "t", "t", "p", "s", ":", "/", "/", "e", "x", "a", "m", "p", "l", "e", ".", "c", "o", "m", "/", "x", "/", "y">>), None), Dict(Str(<<"/">>), None)>>),
   List(<<Dict(Str(<<"g", "s", ":", "/", "/", "b", "/", "z">>), None), Dict(Str(<<"a", "/", "b", ".", "w", "a", "v">>), None)>>),
   List(<<Dict(Str(<<"a", "/", "b", ".", "w", "a", "v">>), None), Dict(Str(<<"g", "s", ":", "/", "/", "b", "/", "z">>), None)>>),
   List(<<Dict(Str(<<"g", "s", ":", "/", "/", "b", "/", "z">>), None), Dict(Str(<<"g", "s", ":", "/", "/", "b", "/", "z">>), None)>>),
   List(<<Dict(Str(<<"a", "/", "b", ".", "w", "a", "v">>), None), Dict(Str(<<"g", "s", ":", "/", "/", "[", "b", "/", "x">>), None)>>)}

\* an entry with where it comes from: <<>> for an entry found in a record,
\* the form, container and path for a location written in a form
StorageInputs ==
  {<<entry, <<>>>> : entry \in Entries}
    \cup {<<Dict(Str(Format(o[1], o[2], o[3])), None), o>> :
            o \in {<<form, container, path>> :
                     form \in Forms, container \in Containers \cup {StorageBucket},
                     path \in ObjectPaths} \ {o \in Forms \X (Containers \cup {StorageBucket}) \X ObjectPaths :
                                                o[2] \notin FormContainers(o[1])}}
    \cup {<<audio>> : audio \in AudioFields}

CallResolveAudioLocation ==
  /\ call.n = 0
  /\ Len(call.args) = 2
  /\ call' = Applied("resolve_audio_location", ResolveAudioLocation(call.args[1]))
  /\ UNCHANGED <<store, now>>
  /\ RepoFrame

CallCollectAudioLocations ==
  /\ call.n = 0
  /\ Len(call.args) = 1
  /\ call' = Applied("collect_audio_locations", CollectAudioLocationsOf(call.args[1]))
  /\ UNCHANGED <<store, now>>
  /\ RepoFrame

NextStorage ==
  \/ CallResolveAudioLocation
  \/ CallCollectAudioLocations

InitStorage == InitInputs(StorageInputs)

SpecStorage == InitStorage /\ [][NextStorage]_vars

\* ------------------------------------------------ features and summaries
\* inference_pipeline._extract_patient_features on the numeric answers of a
\* record, each a tagged Python value; a float is kept as its text
Digits == {"0", "1", "2", "3", "4", "5", "6", "7", "8", "9"}

\* the texts float() accepts, among those the records hold: digits with at
\* most one point
IsNumeral(s) ==
  /\ \E i \in 1 .. Len(s) : s[i] \in Digits
  /\ \A i \in 1 .. Len(s) : s[i] \in Digits \cup {"."}
  /\ Cardinality({i \in 1 .. Len(s) : s[i] = "."}) <= 1

NaN == [kind |-> "nan", v |-> <<>>]

\* float(value): ValueError for a text that is no number, TypeError for a
\* value that is neither a number nor a text
ToFloat(value) ==
  CASE value.type = "int" -> [kind |-> "float", v |-> value.v]
    [] value.type = "str" ->
         IF IsNumeral(value.v) THEN [kind |-> "float", v |-> value.v]
         ELSE [kind |-> "ValueError", v |-> <<>>]
    [] OTHER -> [kind |-> "TypeError", v |-> <<>>]

\* lines 59-64: float(x.get(k)) if x.get(k) is not None else np.nan
NumericFeature(value) == IF value.type = "none" THEN NaN ELSE ToFloat(value)

\* the numeric features in the order the dict literal evaluates them, with
\* the key each one is read from
NumericKeys ==
  <<"age", "height_cm", "weight_kg", "cough_duration_days", "heart_rate_bpm",
    "body_temperature_c">>

\* the features, or the first exception raised while building them
FeaturesOrError(features) ==
  LET raising == {i \in DOMAIN features : features[i].kind \notin {"float", "nan"}}
  IN  IF raising = {} THEN [error |-> "", features |-> features]
      ELSE [error |-> features[CHOOSE i \in raising : \A j \in raising : i <= j].kind,
            features |-> <<>>]

ExtractPatientFeatures(doc) ==
  FeaturesOrError([i \in DOMAIN NumericKeys |-> NumericFeature(doc[NumericKeys[i]])])

\* inference_pipeline._clean_llm_output and _generate_summaries on generated
\* text taken as the sequence of its pieces: the prompt echoed, a turn
\* delimiter, a line break, the two tags, a reasoning artifact, sentences
PromptEcho == "PROMPT"
TurnDelimiters == {"<end_of_turn>"}
Whitespace == {"\n"}
BadFragments == {"Let's think step-by-step:"}
\* a sentence written in Devanagari
DevanagariPieces == {"(Devanagari sentence)"}
ThoughtPieces == {"My thought."}
TemplateEcho == {"Sentence 1."}
Sentences == {"Risk is high."} \cup DevanagariPieces \cup ThoughtPieces \cup TemplateEcho
Pieces ==
  {PromptEcho, "<final>", "</final>"} \cup TurnDelimiters \cup Whitespace
    \cup BadFragments \cup Sentences

\* the place of the first piece of text that is one of ps; 0 without one
FirstPiece(text, ps) ==
  IF \E i \in 1 .. Len(text) : text[i] \in ps
  THEN CHOOSE i \in 1 .. Len(text) :
         text[i] \in ps /\ \A j \in 1 .. i - 1 : text[j] \notin ps
  ELSE 0

\* lines 234-239: the prompt and the delimiters removed, runs of white space
\* made one space and stripped, which leaves one line
StripEcho(output) ==
  SelectSeq(output, LAMBDA t : t \notin {PromptEcho} \cup TurnDelimiters \cup Whitespace)

\* lines 242-244: the content of the first <final>...</final>, when there is one
FinalContent(text) ==
  LET open == FirstPiece(text, {"<final>"})
      close == FirstPiece(From(text, open + 1), {"</final>"})
  IN  IF open # 0 /\ close # 0 THEN SubSeq(text, open + 1, open + close - 1) ELSE text

\* lines 258-260: the lines that hold a bad fragment are dropped, and the
\* text is one line
DropReasoningLines(text) ==
  IF \E i \in 1 .. Len(text) : text[i] \in BadFragments THEN <<>> ELSE text

\* lines 262-266: the Hindi text starts at its first Devanagari character
FromDevanagari(text, language) ==
  IF language = "hi" /\ FirstPiece(text, DevanagariPieces) # 0
  THEN From(text, FirstPiece(text, DevanagariPieces)) ELSE text

\* lines 269-271: the first two of more than two sentences
FirstTwoSentences(text) ==
  LET ends == {i \in 1 .. Len(text) : text[i] \in Sentences}
      parts == Cardinality(ends)
                 + (IF text # <<>> /\ text[Len(text)] \notin Sentences THEN 1 ELSE 0)
  IN  IF parts > 2
      THEN SubSeq(text, 1, CHOOSE i \in ends : Cardinality({j \in ends : j <= i}) = 2)
      ELSE text

CleanLlmOutput(output, language) ==
  FirstTwoSentences(FromDevanagari(DropReasoningLines(FinalContent(StripEcho(output))),
                                   language))

\* f"{final_score:.2f}", in hundredths
Round2(score) == (score + 500) \div 1000

Generated(text) == [fallback |-> FALSE, text |-> text, level |-> "", score |-> 0]

\* _fallback_summary_en and _fallback_summary_hi: the sentence of the
\* language with the tier and the score in it
FallbackSummary(final_score) ==
  [fallback |-> TRUE, text |-> <<>>, level |-> RiskLevel(final_score),
   score |-> Round2(final_score)]

\* a summary that is kept whatever its script
SummaryOrFallback_AnyScript(summary, language, final_score) ==
  IF \/ summary = <<>>
     \/ language = "en" /\ summary[1] \in TemplateEcho
     \/ \E i \in 1 .. Len(summary) : summary[i] \in ThoughtPieces
  THEN FallbackSummary(final_score) ELSE Generated(summary)

\* lines 311-317 and 332-338
SummaryOrFallback(summary, language, final_score) ==
  IF \/ summary = <<>>
     \/ language = "en" /\ summary[1] \in TemplateEcho
     \/ language = "hi" /\ FirstPiece(summary, DevanagariPieces) = 0
     \/ \E i \in 1 .. Len(summary) : summary[i] \in ThoughtPieces
  THEN FallbackSummary(final_score) ELSE Generated(summary)

\* _generate_summaries: the prompt takes int(age), which raises ValueError for
\* the not-a-number sentinel, before any text is generated
GenerateSummaries(age, out_en, out_hi, final_score) ==
  IF age.kind = "nan"
  THEN [error |-> "ValueError", summary_en |-> Generated(<<>>), summary_hi |-> Generated(<<>>)]
  ELSE [error |-> "",
        summary_en |-> SummaryOrFallback(CleanLlmOutput(out_en, "en"), "en", final_score),
        summary_hi |-> SummaryOrFallback(CleanLlmOutput(out_hi, "hi"), "hi", final_score)]

\* run_tb_inference from the features to the payload, the capabilities
\* returning normally: the exception of a step is the exception of the run
GoodOutputEn == <<"<final>", "Risk is high.", "</final>">>
GoodOutputHi == <<"<final>", "(Devanagari sentence)", "</final>">>

PipelineFailed(error) ==
  [error |-> error, risk_score |-> 0, risk_level |-> "",
   summary_en |-> Generated(<<>>), summary_hi |-> Generated(<<>>)]

\* lines 372-392
PipelinePayload(summaries, final_score) ==
  IF summaries.error # "" THEN PipelineFailed(summaries.error)
  ELSE [error |-> "", risk_score |-> Round4(final_score),
        risk_level |-> RiskLevel(final_score),
        summary_en |-> summaries.summary_en, summary_hi |-> summaries.summary_hi]

\* lines 352-378
PipelineFromFeatures(extracted, final_score) ==
  IF extracted.error # "" THEN PipelineFailed(extracted.error)
  ELSE PipelinePayload(
         GenerateSummaries(extracted.features[1], GoodOutputEn, GoodOutputHi, final_score),
         final_score)

RunPipeline(doc, final_score) ==
  PipelineFromFeatures(ExtractPatientFeatures(doc), final_score)

\* the numeric answers of the records: absent, a number, a numeric text, a
\* text that is no number, a list
AgeValues == {None, Number(<<"4", "2">>), Str(<<"4", "2">>), Str(<<"a", "b", "c">>), List(<<>>)}
AnswerValues == {None, Number(<<"6", "0">>), Str(<<"n", "/", "a">>)}
NumericDocs ==
  [age : AgeValues, height_cm : AnswerValues, weight_kg : AnswerValues,
   cough_duration_days : AnswerValues, heart_rate_bpm : AnswerValues,
   body_temperature_c : {None, Number(<<"3", "7">>), Str(<<"3", "7", ".", "5">>)}]

\* generated texts: every text of up to three pieces, and two longer ones
Outputs ==
  {<<>>} \cup {<<a>> : a \in Pieces} \cup {<<a, b>> : a \in Pieces, b \in Pieces}
    \cup {<<a, b, c>> : a \in Pieces, b \in Pieces, c \in Pieces}
    \cup {<<"Let's think step-by-step:", "<final>", "Risk is high.", "</final>">>,
          <<"<final>", "(Devanagari sentence)", "Risk is high.", "Risk is high.", "</final>">>}

PipelineScores == {39996, 69996, 70000, 82000}

PipelineInputs ==
  {<<doc>> : doc \in NumericDocs}
    \cup {<<doc, score>> : doc \in NumericDocs, score \in PipelineScores}
    \cup {<<age, out[1], out[2], score>> :
            age \in {NaN, [kind |-> "float", v |-> <<"4", "2">>]},
            out \in {<<o, GoodOutputHi>> : o \in Outputs}
                      \cup {<<GoodOutputEn, o>> : o \in Outputs},
            score \in {39996, 82000}}

CallExtractPatientFeatures ==
  /\ call.n = 0
  /\ Len(call.args) = 1
  /\ call' = Applied("_extract_patient_features", ExtractPatientFeatures(call.args[1]))
  /\ UNCHANGED <<store, now>>
  /\ RepoFrame

CallGenerateSummaries ==
  /\ call.n = 0
  /\ Len(call.args) = 4
  /\ call' = Applied("_generate_summaries",
                     GenerateSummaries(call.args[1], call.args[2], call.args[3],
                                       call.args[4]))
  /\ UNCHANGED <<store, now>>
  /\ RepoFrame

CallRunTbInference ==
  /\ call.n = 0
  /\ Len(call.args) = 2
  /\ call' = Applied("run_tb_inference", RunPipeline(call.args[1], call.args[2]))
  /\ UNCHANGED <<store, now>>
  /\ RepoFrame

NextPipeline ==
  \/ CallExtractPatientFeatures
  \/ CallGenerateSummaries
  \/ CallRunTbInference

InitPipeline == InitInputs(PipelineInputs)

SpecPipeline == InitPipeline /\ [][NextPipeline]_vars

\* ------------------------------------------------ a record that is deleted
\* populate_db.clear_collection lines 489-492: a process outside the service
\* deletes the document of a patient, at any moment of a handler's run
DeleteRecord(p) ==
  /\ store[p].exists
  /\ store' = [store EXCEPT ![p] = NoDoc]
  /\ UNCHANGED <<now, services, pc, settings, req, patient_doc, ai_payload, exc, resp,
                 delivered, call>>
  /\ UNCHANGED <<tmpvars, attempts, runs>>

NextDelete ==
  \/ \E w \in Workers :
       \/ InferBegin(w)
       \/ Claim(w)
       \/ Download(w)
       \/ RunInference(w)
       \/ WriteSuccessStep(w)
       \/ WriteFailureStep(w)
  \/ \E p \in Patients : DeleteRecord(p)

SpecDelete == InitOneTarget /\ [][NextDelete]_vars

\* ------------------------------------------------ the record sync endpoint
\* backend/main.py AIResult: the declared fields, each None unless given
AIResultFields ==
  {"hear_embedding_id", "hear_score", "medgemini_summary", "medgemini_summary_en",
   "medgemini_summary_hi", "medgemini_summary_i18n", "risk_score", "risk_level"}

\* backend/main.py get_medgemini_summary; risk_score in units of 1e-3
GetMedgeminiSummary(risk_score, triage_status) ==
  IF triage_status \in {<<"AI_TRIAGED">>, <<"TEST_QUEUED">>} THEN "AI triage completed."
  ELSE IF triage_status = <<"LAB_DONE">> THEN "Lab result is ready."
  ELSE IF triage_status = <<"DOCTOR_FINALIZED">> THEN "Doctor finalized action plan."
  ELSE IF triage_status = <<"ASHA_ACTION_IN_PROGRESS">> THEN "ASHA follow-up is in progress."
  ELSE IF triage_status = <<"CLOSED">> THEN "Case workflow closed."
  ELSE IF risk_score >= 8000 THEN "High TB suspicion."
  ELSE IF risk_score >= 5000 THEN "Moderate TB risk."
  ELSE "Low TB risk."

\* sync_patients lines 288-299: the AIResult of the dummy AI, for a hear_score
\* in hundredths (get_hear_score draws 0.20 .. 0.95 rounded to 2 decimals);
\* risk_score = round(min(10.0, hear_score * 10), 1) is hear_score * 10.
\* The stored hear_score and risk_score are in units of 1e-5.
DummyAi(hear_score, triage_status) ==
  [hear_embedding_id |-> "uuid4",
   hear_score |-> hear_score * 1000,
   medgemini_summary |-> GetMedgeminiSummary(Min(10000, hear_score * 100), triage_status),
   risk_score |-> Min(10000, hear_score * 100) * 100,
   risk_level |-> GetRiskLevel(Min(10000, hear_score * 100))]

\* sync_patients lines 308-321: payload = record.model_dump() and
\* doc_ref.set(payload, merge=True). A record without ai dumps "ai": None, a
\* leaf that replaces the whole stored map by null; a record with ai dumps
\* every declared field of AIResult, the unset ones as None. A null field reads
\* as an absent one (firestore_repo line 25: data.get("ai") or {}; ai.get(k)).
SyncSet(doc, record, ai) ==
  [doc EXCEPT !.exists = TRUE,
              !.ai = IF ai = <<>> THEN EmptyMap
                     ELSE MergeFields(doc.ai, ai[1], AIResultFields \ DOMAIN ai[1]),
              !.audio = record.audio,
              !.clinical = record.clinical,
              !.symptom_codes = record.symptom_codes,
              !.demographics = record.demographics]

\* the AI-result a client sends back with a record: what it was shown earlier
ClientAis == {[risk_level |-> "LOW"]}

SyncRecords ==
  [ai : {<<>>} \cup {<<a>> : a \in ClientAis},
   triage_status : {<<>>, <<"LAB_DONE">>},
   audio : {<<GoodAudio>>}, clinical : {SampleClinical}, symptom_codes : {{}},
   demographics : {SampleDemographics}]

DummyHearScores == {20, 39, 40, 69, 70, 95}

\* backend/main.py sync_patients lines 280-331, for a batch of one record, in
\* a deployment whose ENABLE_DUMMY_AI is enable_dummy_ai
SyncPatients(p, record, enable_dummy_ai) ==
  /\ call.n < MaxCalls
  /\ \E hear_score \in DummyHearScores :
       store' = [store EXCEPT ![p] =
                   SyncSet(store[p], record,
                           IF enable_dummy_ai
                           THEN <<DummyAi(hear_score, record.triage_status)>>
                           ELSE record.ai)]
  /\ call' = Called("sync_patients", <<p, record, enable_dummy_ai>>,
                    <<IF store[p].exists THEN "updated" ELSE "created">>)
  /\ now' = now
  /\ RepoFrame

\* the sync endpoint and the functions of the repository, in any order
NextSync ==
  \E p \in Patients :
    \/ \E tv \in Versions : RepoMarkProcessing(p, tv)
    \/ \E payload \in RepoPayloads : RepoWriteSuccess(p, payload)
    \/ \E v \in Versions, e \in RepoErrors : RepoWriteFailure(p, v, e)
    \/ \E record \in SyncRecords, enable_dummy_ai \in BOOLEAN :
         SyncPatients(p, record, enable_dummy_ai)

SpecSync == Init /\ [][NextSync]_vars

\* ------------------------------------------- a request that is redelivered
\* The push subscription delivers a request with the target version of the
\* service, waits for the answer and delivers it again after a 500. Handlers
\* run to completion; the download and the scoring and generation capabilities
\* may fail while a delivery is still to come and do not fail on the last one.
\* The records are those of InitialDocs and the same without an age.
LiveDocs ==
  {[d EXCEPT !.demographics = [age |-> age]] : d \in InitialDocs, age \in {<<>>, <<42>>}}

InitLive ==
  /\ store \in [Patients -> LiveDocs]
  /\ call = NoCall
  /\ InitIdle
  /\ \E t \in Versions : services = {s \in Settings : s.target_model_version = t}

\* the handler that serves the deliveries, one after another
Redelivered == CHOOSE w \in Workers : \A v \in Workers : w <= v

CapabilityFails(w) ==
  /\ pc'[w] = "except"
  /\ exc'[w] \in DownloadErrors \cup InferenceErrors

NextLive ==
  \/ InferBegin(Redelivered) /\ pc'[Redelivered] = "claim"
  \/ Claim(Redelivered)
  \/ Download(Redelivered) /\ (CapabilityFails(Redelivered) => delivered < MaxDeliveries)
  \/ RunInference(Redelivered) /\ (CapabilityFails(Redelivered) => delivered < MaxDeliveries)
  \/ WriteSuccessStep(Redelivered)
  \/ WriteFailureStep(Redelivered)

SpecLive == InitLive /\ [][NextLive]_vars /\ WF_vars(NextLive)

\* ------------------------------------------------------------------ claims
Status(doc) == Get(doc.ai, "inference_status")
StoredVersion(doc) == Get(doc.ai, "model_version")

\* a handler between its PROCESSING_CLAIMED result and its terminal write
Live(w) == pc[w] \in {"download", "infer", "write", "except"}

\* the step in which handler w's claim transaction returns, and what it returns
ClaimReturns(w) == pc[w] = "claim" /\ pc'[w] # "claim"
ClaimResult(w) == IF pc'[w] = "download" THEN "PROCESSING_CLAIMED" ELSE resp'.status

\* C1: with one target version and a record that starts with no AI-result, a
\* claim returns SKIP_IN_PROGRESS while another handler is still processing
\* the record, SKIP_ALREADY_DONE once the winner has written SUCCESS, and
\* PROCESSING_CLAIMED only when nobody holds the record and either nothing was
\* claimed before or the last worker wrote FAILED.
C1_ClaimExclusivity ==
  [][\A w \in Workers :
       ClaimReturns(w) /\ store[req[w].patient_id].exists =>
         LET p == req[w].patient_id
             busy == \E v \in Workers \ {w} : Live(v) /\ req[v].patient_id = p
         IN  /\ busy => ClaimResult(w) = "SKIP_IN_PROGRESS"
             /\ ~busy /\ Status(store[p]) = <<"SUCCESS">> =>
                  ClaimResult(w) = "SKIP_ALREADY_DONE"
             /\ ClaimResult(w) = "PROCESSING_CLAIMED" =>
                  ~busy /\ Status(store[p]) \in {<<>>, <<"FAILED">>}]_vars

\* the stored fields a reader takes as the result
ResultFields == {"risk_score", "risk_level", "medgemini_summary_en", "medgemini_summary_hi",
                 "medgemini_summary", "medgemini_summary_i18n", "inference_status"}
Restrict(m, keys) == [k \in DOMAIN m \cap keys |-> m[k]]

\* C2: with one target version, once a record's stored state is SUCCESS no
\* later step of any request changes its stored risk_score, risk_level,
\* summaries or inference_status: the success payload is persisted once.
C2_SuccessPersistedOnce ==
  [][\A p \in Patients :
       Status(store[p]) = <<"SUCCESS">> =>
         Restrict(store'[p].ai, ResultFields) = Restrict(store[p].ai, ResultFields)]_vars

\* C3: for each record and target version at most one handler is between its
\* PROCESSING_CLAIMED result and its terminal write.
C3_OneLiveClaim ==
  \A p \in Patients, t \in Versions :
    Cardinality({w \in Workers : Live(w) /\ req[w].patient_id = p
                                 /\ req[w].target_model_version = t}) <= 1

\* C4: a claim that returns NOT_FOUND, SKIP_ALREADY_DONE or SKIP_IN_PROGRESS
\* leaves the store and the clock as they were (a missing record stays
\* missing), and the two skips are returned exactly for a stored version equal
\* to the target with status SUCCESS, respectively PROCESSING.
C4_SkipsDoNotWrite ==
  [][\A w \in Workers :
       ClaimReturns(w) =>
         LET d == store[req[w].patient_id]
             forTarget == StoredVersion(d) = <<req[w].target_model_version>>
         IN  /\ ClaimResult(w) = "SKIP_NOT_FOUND" <=> ~d.exists
             /\ ClaimResult(w) = "SKIP_ALREADY_DONE" <=>
                  d.exists /\ forTarget /\ Status(d) = <<"SUCCESS">>
             /\ ClaimResult(w) = "SKIP_IN_PROGRESS" <=>
                  d.exists /\ forTarget /\ Status(d) = <<"PROCESSING">>
             /\ ClaimResult(w) # "PROCESSING_CLAIMED" => store' = store /\ now' = now]_vars

\* a skip was answered while the record held a result
C4_Witness ==
  /\ resp.status \in {"SKIP_ALREADY_DONE", "SKIP_IN_PROGRESS", "SKIP_NOT_FOUND"}
  /\ \A w \in Workers : pc[w] = "idle"
  /\ \/ Status(store["p1"]) = <<"SUCCESS">>
     \/ ~store["p1"].exists

\* C5: a direct call of mark_processing_if_needed that returns
\* PROCESSING_CLAIMED has, in the same step, set ai.model_version to the target,
\* ai.inference_status to PROCESSING and ai.processing_started_at to the clock,
\* removed ai.error_message and left every other field alone; the document it
\* returns is the record as it was before the step.
C5_ClaimMutation ==
  [][call'.n # call.n /\ call'.op = "mark_processing_if_needed"
       /\ call'.ret[1] = "PROCESSING_CLAIMED" =>
         LET p == call'.args[1]
             tv == call'.args[2]
             written == {"model_version", "inference_status", "processing_started_at",
                         "error_message"}
         IN  /\ Get(store'[p].ai, "model_version") = <<tv>>
             /\ Get(store'[p].ai, "inference_status") = <<"PROCESSING">>
             /\ Get(store'[p].ai, "processing_started_at") = <<now>>
             /\ "error_message" \notin DOMAIN store'[p].ai
             /\ Restrict(store'[p].ai, DOMAIN store'[p].ai \ written)
                  = Restrict(store[p].ai, DOMAIN store[p].ai \ written)
             /\ call'.ret[2] = store[p]]_vars

\* a claim was granted on a record that carried an error_message
C5_Witness ==
  /\ call.op = "mark_processing_if_needed"
  /\ call.ret[1] = "PROCESSING_CLAIMED"
  /\ "error_message" \in DOMAIN call.ret[2].ai
  /\ "error_message" \notin DOMAIN store[call.args[1]].ai

\* C6: a claim on an existing record whose stored status is FAILED, or whose
\* stored version is not the target, returns PROCESSING_CLAIMED and leaves the
\* record PROCESSING for the target version.
C6_FailedOrStaleReclaimed ==
  [][\A w \in Workers :
       LET p == req[w].patient_id
           tv == req[w].target_model_version
       IN  ClaimReturns(w) /\ store[p].exists
             /\ (Status(store[p]) = <<"FAILED">> \/ StoredVersion(store[p]) # <<tv>>) =>
               /\ ClaimResult(w) = "PROCESSING_CLAIMED"
               /\ Status(store'[p]) = <<"PROCESSING">>
               /\ StoredVersion(store'[p]) = <<tv>>]_vars

\* a handler holds a claim on a record that a failed request had written before
C6_Witness ==
  \E w \in Workers :
    /\ pc[w] = "download"
    /\ Status(store[req[w].patient_id]) = <<"PROCESSING">>
    /\ "generated_at" \in DOMAIN store[req[w].patient_id].ai
    /\ "risk_score" \notin DOMAIN store[req[w].patient_id].ai

\* C7: a step that writes the AI-result and leaves inference_status SUCCESS or
\* FAILED starts from inference_status PROCESSING.
C7_TerminalOnlyFromProcessing ==
  [][\A p \in Patients :
       store'[p].ai # store[p].ai /\ Status(store'[p]) \in {<<"SUCCESS">>, <<"FAILED">>} =>
         Status(store[p]) = <<"PROCESSING">>]_vars

\* C8: write_failure called right after a write_success that stored its
\* payload, with no claim in between, leaves the stored state SUCCESS and adds
\* no error_message.
C8_FailureAfterSuccessKeepsSuccess ==
  [][call.op = "write_success" /\ call.ret = <<"None">>
       /\ call'.n # call.n /\ call'.op = "write_failure" =>
         /\ Status(store'[call'.args[1]]) = <<"SUCCESS">>
         /\ "error_message" \notin DOMAIN store'[call'.args[1]].ai]_vars

\* the server timestamps of the AI-result
TimestampFields == {"generated_at", "processing_started_at"}

\* C9: write_success called again with the same payload, or write_failure
\* called again with the same model version and message, leaves every stored
\* field other than the server timestamps as the first call left it.
C9_WritesIdempotent ==
  [][call'.n # call.n /\ call'.repeat /\ call'.op \in {"write_success", "write_failure"} =>
       LET p == call'.args[1]
       IN  /\ store'[p].exists = store[p].exists
           /\ Restrict(store'[p].ai, DOMAIN store'[p].ai \ TimestampFields)
                = Restrict(store[p].ai, DOMAIN store[p].ai \ TimestampFields)]_vars

\* write_success was applied a second time with the same payload and stored it
C9_Witness ==
  /\ call.op = "write_success"
  /\ call.repeat
  /\ call.ret = <<"None">>
  /\ Status(store[call.args[1]]) = <<"SUCCESS">>

\* the success fields of a run_tb_inference payload
SuccessFields == {"hear_score", "risk_score", "risk_level", "medgemini_summary_en",
                  "medgemini_summary_hi", "action_items_en", "action_items_hi",
                  "model_version"}

\* C10: when a handler's write_success returns, the stored AI-result holds
\* every success field of the payload (scores, level, both summaries, both
\* action-item lists), has inference_status SUCCESS and no error_message.
C10_SuccessStoresPayload ==
  [][\A w \in Workers :
       pc[w] = "write" /\ pc'[w] = "idle" =>
         LET ai == store'[req[w].patient_id].ai
         IN  /\ \A f \in SuccessFields : Get(ai, f) = <<ai_payload[w][f]>>
             /\ Get(ai, "inference_status") = <<"SUCCESS">>
             /\ "error_message" \notin DOMAIN ai]_vars

\* C11: in every state reached by calls of mark_processing_if_needed,
\* write_success and write_failure, an AI-result that has an error_message has
\* inference_status FAILED.
C11_ErrorMessageOnlyWhenFailed ==
  \A p \in Patients :
    "error_message" \in DOMAIN store[p].ai => Status(store[p]) = <<"FAILED">>

\* write_failure has stored an error_message on a record that already held the
\* risk fields of an earlier write_success
C11_Witness ==
  /\ call.op = "write_failure"
  /\ "error_message" \in DOMAIN store[call.args[1]].ai
  /\ "risk_score" \in DOMAIN store[call.args[1]].ai
  /\ Status(store[call.args[1]]) = <<"FAILED">>

\* C12: the step that delivers a request either takes the handler to the claim
\* transaction, and then the request's target version is the service's, or
\* answers ok=true, SKIP_TARGET_VERSION_MISMATCH with no handler at the claim
\* and the store and its clock untouched: a request for another target version
\* never reaches the claim and never reads or writes the store.
C12_MismatchSkipsWithoutStore ==
  [][delivered' # delivered =>
       \E w \in Workers :
         /\ pc[w] = "idle"
         /\ \A v \in Workers \ {w} : pc'[v] = pc[v]
         /\ store' = store /\ now' = now
         /\ \/ /\ pc'[w] = "claim"
               /\ req'[w].target_model_version = settings'[w].target_model_version
            \/ /\ pc'[w] = "idle"
               /\ resp' = [to |-> w, code |-> 200, ok |-> TRUE,
                           status |-> "SKIP_TARGET_VERSION_MISMATCH"]
               /\ req'[w] = NoRequest]_vars

\* a mismatching request was answered while another handler held a claim on
\* the record
C12_Witness ==
  /\ resp.status = "SKIP_TARGET_VERSION_MISMATCH"
  /\ resp.ok
  /\ \E w \in Workers \ {resp.to} : Live(w)
  /\ Status(store["p1"]) = <<"PROCESSING">>

\* the stored fields that carry a risk result, a summary or action items
RiskFields == {"hear_score", "risk_score", "risk_level", "medgemini_summary_en",
               "medgemini_summary_hi", "medgemini_summary", "medgemini_summary_i18n",
               "action_items_en", "action_items_hi", "action_items_i18n",
               "actions_source"}

SkipStatuses == {"SKIP_TARGET_VERSION_MISMATCH", "SKIP_NOT_FOUND", "SKIP_ALREADY_DONE",
                 "SKIP_IN_PROGRESS"}

\* C15: a handler that returns from the version check or from the claim
\* transaction answers code 200, ok=true and one of the skip statuses and
\* leaves the store and its clock as they were; a handler that returns from
\* write_success or write_failure never answers a skip status.
C15_SkipsAreSuccessResponses ==
  [][\A w \in Workers :
       /\ \/ pc[w] = "claim" /\ pc'[w] = "idle"
          \/ pc[w] = "idle" /\ pc' = pc /\ delivered' # delivered /\ resp'.to = w
          => /\ resp' = [to |-> w, code |-> 200, ok |-> TRUE, status |-> resp'.status]
             /\ resp'.status \in SkipStatuses
             /\ store' = store
             /\ now' = now
       /\ pc[w] \in {"write", "except"} /\ pc'[w] = "idle" =>
            resp'.to = w /\ resp'.status \notin SkipStatuses]_vars

\* a request found the record in progress and was answered ok=true with
\* SKIP_IN_PROGRESS while the claiming handler went on
C15_Witness ==
  /\ resp = [to |-> resp.to, code |-> 200, ok |-> TRUE, status |-> "SKIP_IN_PROGRESS"]
  /\ pc[resp.to] = "idle"
  /\ \E w \in Workers : pc[w] \in {"infer", "write"}

C17_TmpFilesRemoved ==
  \A w \in Workers :
    pc[w] = "idle" => {f \in tmp_files : f.by = w} = {}

\* C18: the claim transaction of a handler makes at most MaxAttempts attempts;
\* an aborted attempt writes nothing; when the last attempt is aborted the
\* handler ends with HTTP 500 without entering the except clause, and the store
\* and its clock are as they were.
C18_ContentionBoundedAndClean ==
  [][\A w \in Workers :
       /\ attempts'[w] < MaxAttempts
       /\ pc[w] = "claim" => pc'[w] \in {"claim", "download", "idle"}
       /\ pc[w] = "claim" /\ attempts'[w] = attempts[w] + 1 =>
            pc'[w] = "claim" /\ store' = store /\ now' = now
       /\ pc[w] = "claim" /\ pc'[w] = "idle" /\ resp'.code # 200 =>
            /\ attempts[w] = MaxAttempts - 1
            /\ resp' = [to |-> w, code |-> 500, ok |-> FALSE,
                        status |-> "Internal Server Error"]
            /\ store' = store
            /\ now' = now]_vars

\* a claim ran out of attempts and its request failed; the record holds the
\* claim of another handler and no failure
C18_Witness ==
  /\ resp.code = 500
  /\ resp.status = "Internal Server Error"
  /\ pc[resp.to] = "idle"
  /\ \E w \in Workers : Live(w)
  /\ Status(store["p1"]) = <<"PROCESSING">>
  /\ "error_message" \notin DOMAIN store["p1"].ai

\* C19: a request handled from the same store with the same body under two
\* values of X-CloudTasks-TaskName and X-CloudTasks-TaskRetryCount gives the
\* same response and leaves the same document; only the logged events differ,
\* and they differ only in the two header values.
C19_HeadersReachLogsOnly ==
  /\ runs.first.resp = runs.second.resp
  /\ runs.first.doc = runs.second.doc
  /\ Len(runs.first.log) = Len(runs.second.log)
  /\ runs.first.log # <<>> => runs.first.log[1] = runs.second.log[1]

\* the two handlings carried different headers, wrote a result and logged
\* different events
C19_Witness ==
  /\ runs.first.resp.status \in {"SUCCESS", "inference failed"}
  /\ runs.first.log # runs.second.log
  /\ runs.first.doc.ai # EmptyMap
  /\ delivered > 1

\* C20: _risk_level returns HIGH for every score of at least 0.70, MEDIUM for
\* every score of at least 0.40 and below 0.70, LOW for every score below 0.40;
\* in particular 0.3999 is LOW, 0.40 MEDIUM, 0.6999 MEDIUM and 0.70 HIGH.
C20_RiskLadder ==
  call.op = "_risk_level" =>
    LET score == call.args[1]
        level == call.ret[1]
    IN  /\ score >= 70000 => level = "HIGH"
        /\ score >= 40000 /\ score < 70000 => level = "MEDIUM"
        /\ score < 40000 => level = "LOW"
        /\ score = 39990 => level = "LOW"
        /\ score = 40000 => level = "MEDIUM"
        /\ score = 69990 => level = "MEDIUM"
        /\ score = 70000 => level = "HIGH"

\* _risk_level was called with 0.70 after a call with another score
C20_Witness ==
  /\ call.op = "_risk_level"
  /\ call.n > 1
  /\ ~call.repeat
  /\ call.args = <<70000>>
  /\ call.ret = <<"HIGH">>

\* C21: for every record and score the backfill's _risk_level and
\* _build_rule_actions return what the pipeline's return, and get_risk_level
\* of a score on the 0-10 scale is the pipeline's tier of that score divided
\* by 10.
C21_SameLadderEverywhere ==
  /\ call.op = "backfill._build_rule_actions" =>
       call.ret = <<RiskLevel(call.args[2]), BuildRuleActions(call.args[1], call.args[2])>>
  /\ call.op = "get_risk_level" =>
       \* a score in units of 1e-3, divided by 10, in units of 1e-5
       call.ret = <<RiskLevel(call.args[1] * 10)>>

\* the backfill was applied at the HIGH threshold to a record with a red flag
C21_Witness ==
  /\ call.op = "backfill._build_rule_actions"
  /\ call.args[2] = 70000
  /\ call.ret[1] = "HIGH"
  /\ call.ret[2].en[1] = <<"en", "URGENT_REFERRAL">>
  /\ Len(call.ret[2].hi) = 5

\* 0.55 * clinical + 0.45 * acoustic clamped to [0,1], in units of 1e-5
Baseline(prob_a, prob_m) ==
  LET x == (55 * prob_m + 45 * prob_a) \div 100
  IN  IF x < 0 THEN 0 ELSE IF x > 100000 THEN 100000 ELSE x

\* C22: without the supervisor model the final score is the baseline
\* 0.55 * clinical + 0.45 * acoustic clamped to [0,1] and nothing is raised;
\* with it, the final score is the supervisor's output.
C22_BaselineWithoutSupervisor ==
  call.op = "final_score" =>
    IF call.args[3] = <<>>
    THEN call.ret = <<"final_score", Baseline(call.args[1], call.args[2])>>
    ELSE call.ret = <<"final_score", call.args[3][1]>>

\* the rules applied: the call returned, its record, its score, its lists
Returned == call.op = "_build_rule_actions"
BeforeReturn == call.op = "_build_rule_actions:229"
Ids(list) == [i \in 1 .. Len(list) |-> list[i][2]]
Has(list, id) == \E i \in 1 .. Len(list) : list[i][2] = id

\* the tags that read "shortness of breath" whatever their case and separators
BreathTags == SignTags \ {<<"s", "h", "o", "r", "t", " ", "b", "r", "e", "a", "t", "h">>}

RedFlag(doc) ==
  \/ doc.clinical.cough_nature = "BLOOD_STAINED"
  \/ doc.clinical.physical_signs \cap BreathTags # {}
  \/ "HEMOPTYSIS" \in doc.symptom_codes

C24_UrgentIffRedFlag ==
  Returned =>
    /\ Has(call.ret[2].en, "URGENT_REFERRAL") <=> RedFlag(call.args[1])
    /\ Has(call.ret[2].hi, "URGENT_REFERRAL") <=> RedFlag(call.args[1])

C24_Witness ==
  /\ Returned
  /\ call.args[1].clinical.cough_nature = ""
  /\ call.args[1].symptom_codes = {}
  /\ \E tag \in call.args[1].clinical.physical_signs : tag[1] = " " /\ tag[2] = "S"
  /\ call.args[2] = 0
  /\ call.ret[1] = "LOW"
  /\ call.ret[2].en[1] = <<"en", "URGENT_REFERRAL">>

\* the place right after the tier block: after the urgent referral, if any,
\* and the three actions of the tier
AfterTierBlock(list) == IF Has(list, "URGENT_REFERRAL") THEN 5 ELSE 4

PersistentCoughPlaced(list, long_cough) ==
  /\ Has(list, "PERSISTENT_COUGH_2_WEEKS") <=>
       (long_cough /\ ~Has(SubSeq(list, 1, AfterTierBlock(list) - 1), "LOW_MONITOR_2_WEEKS"))
  /\ \A i \in 1 .. Len(list) :
       list[i][2] = "PERSISTENT_COUGH_2_WEEKS" => i = AfterTierBlock(list)

\* C25 as stated: the persistent-cough work-up is appended right after the
\* tier block exactly when the cough duration is at least 14 days and no
\* action already mentions "2 weeks"; never for the LOW tier.
C25_PersistentCoughIffLongDuration ==
  Returned =>
    LET days == call.args[1].clinical.cough_duration_days
    IN  /\ PersistentCoughPlaced(call.ret[2].en, days # <<>> /\ days[1] >= 14)
        /\ call.ret[1] = "LOW" => ~Has(call.ret[2].en, "PERSISTENT_COUGH_2_WEEKS")

\* C25: the persistent-cough work-up is appended right after the tier block
\* exactly when the cough duration is at least 14 days, or is absent while
\* the record carries the legacy symptom code COUGH, and no action already
\* mentions "2 weeks"; never for the LOW tier.
C25_PersistentCoughIffLongOrLegacy ==
  Returned =>
    LET days == call.args[1].clinical.cough_duration_days
        long_cough == \/ days # <<>> /\ days[1] >= 14
                      \/ days = <<>> /\ "COUGH" \in call.args[1].symptom_codes
    IN  /\ PersistentCoughPlaced(call.ret[2].en, long_cough)
        /\ PersistentCoughPlaced(call.ret[2].hi, long_cough)
        /\ call.ret[1] = "LOW" => ~Has(call.ret[2].en, "PERSISTENT_COUGH_2_WEEKS")
        /\ (call.ret[1] # "LOW" /\ long_cough) => Has(call.ret[2].en, "PERSISTENT_COUGH_2_WEEKS")

C25_Witness ==
  /\ Returned
  /\ call.args[1].clinical.cough_duration_days = <<>>
  /\ "COUGH" \in call.args[1].symptom_codes
  /\ call.ret[1] = "MEDIUM"
  /\ Len(call.ret[2].en) >= 4
  /\ call.ret[2].en[4] = <<"en", "PERSISTENT_COUGH_2_WEEKS">>

VitalsToDocument(doc) ==
  \/ doc.clinical.body_temperature_c # <<>> /\ doc.clinical.body_temperature_c[1] >= 385
  \/ doc.clinical.weight_loss = "YES"
  \/ doc.clinical.night_sweats = "YES"

\* C26: before the lists are cut to 5, the document-vitals action is their
\* last entry, after the tier block and any persistent-cough action, when the
\* temperature is at least 38.5 C or the weight-loss or night-sweats flag is
\* set, and is not in them otherwise; a returned list has it only then.
C26_VitalsAppendedLast ==
  /\ BeforeReturn =>
       LET en == call.ret[2].en
           hi == call.ret[2].hi
       IN  /\ Has(en, "DOCUMENT_VITALS") <=> VitalsToDocument(call.args[1])
           /\ Has(hi, "DOCUMENT_VITALS") <=> VitalsToDocument(call.args[1])
           /\ \A i \in 1 .. Len(en) :
                en[i][2] = "DOCUMENT_VITALS" =>
                  /\ i = Len(en)
                  /\ i > AfterTierBlock(en) - 1
                  /\ Has(en, "PERSISTENT_COUGH_2_WEEKS") => i = AfterTierBlock(en) + 1
  /\ Returned =>
       (Has(call.ret[2].en, "DOCUMENT_VITALS") => VitalsToDocument(call.args[1]))

C26_Witness ==
  /\ BeforeReturn
  /\ call.args[1].clinical.weight_loss = "YES"
  /\ Len(call.ret[2].en) = 6
  /\ call.ret[2].en[5] = <<"en", "PERSISTENT_COUGH_2_WEEKS">>
  /\ call.ret[2].en[6] = <<"en", "DOCUMENT_VITALS">>

EndToEndIds ==
  <<"URGENT_REFERRAL", "HIGH_TEST_SAME_DAY", "HIGH_SOURCE_CONTROL", "HIGH_PRIORITIZE",
    "PERSISTENT_COUGH_2_WEEKS">>

\* C27: a record with a cough of 20 days, blood-stained, scored 0.82 is HIGH
\* and gets exactly 5 entries in each list: the urgent referral, the three
\* HIGH actions in their order, the persistent-cough work-up.
C27_EndToEnd ==
  ( /\ Returned
    /\ call.args[1].clinical.cough_duration_days = <<20>>
    /\ call.args[1].clinical.cough_nature = "BLOOD_STAINED"
    /\ call.args[2] = 82000 ) =>
      /\ call.ret[1] = "HIGH"
      /\ Ids(call.ret[2].en) = EndToEndIds
      /\ Ids(call.ret[2].hi) = EndToEndIds

C27_Witness ==
  /\ Returned
  /\ call.args[1].clinical.cough_duration_days = <<20>>
  /\ call.args[1].clinical.cough_nature = "BLOOD_STAINED"
  /\ call.args[1].clinical.weight_loss = "NO"
  /\ call.args[1].clinical.physical_signs = {}
  /\ call.args[2] = 82000
  /\ call.ret[1] = "HIGH"
  /\ Len(call.ret[2].en) = 5
  /\ call.ret[2].en[5] = <<"en", "PERSISTENT_COUGH_2_WEEKS">>

Resolved == call.op = "resolve_audio_location"

\* the reference of an entry, when it has one
Reference(entry) ==
  IF Truthy(entry.storage_uri) THEN entry.storage_uri ELSE entry.storage_path

\* a reference written with a scheme that is none of gs, http and https
UnsupportedScheme(ref) ==
  /\ Contains(ref, <<":", "/", "/">>)
  /\ ~StartsWith(ref, <<"g", "s", ":", "/", "/">>)
  /\ ~StartsWith(ref, <<"h", "t", "t", "p", ":", "/", "/">>)
  /\ ~StartsWith(ref, <<"h", "t", "t", "p", "s", ":", "/", "/">>)

\* C28: resolve_audio_location never raises, gives a location only with a
\* non-empty path, and gives null for a reference in an unsupported scheme.
C28_NullWhenNoFormOrNoPath ==
  Resolved =>
    /\ call.ret.kind \in {"None", "location"}
    /\ call.ret.kind = "location" => call.ret.blob_path # <<>>
    /\ ( /\ Reference(call.args[1]).type = "str"
         /\ UnsupportedScheme(Reference(call.args[1]).v) ) => call.ret.kind = "None"

\* C29: a container and a path written in one of the four forms resolve to
\* that container and that path.
C29_FormatThenResolve ==
  (Resolved /\ call.args[2] # <<>>) =>
    call.ret = AudioLocation(call.args[2][2], call.args[2][3])

\* C30: collect_audio_locations raises nothing and returns, in the order of
\* the entries, the locations of the entries that are objects and resolve to
\* a location with a non-empty path; a field that is not a list gives none.
C30_CollectKeepsResolvedInOrder ==
  call.op = "collect_audio_locations" =>
    LET audio == call.args[1]
        items == IF audio.type = "list" THEN audio.v ELSE <<>>
        kept == SelectSeq(items, LAMBDA e :
                  /\ e.type = "dict"
                  /\ ResolveAudioLocation(e).kind = "location"
                  /\ ResolveAudioLocation(e).blob_path # <<>>)
    IN  /\ call.ret.error = ""
        /\ call.ret.locations = [i \in 1 .. Len(kept) |-> ResolveAudioLocation(kept[i])]

\* C31: _extract_patient_features raises nothing, and every numeric feature
\* is a number or the not-a-number sentinel: the sentinel for an answer that
\* is absent or is neither a number nor a numeric text.
C31_FeaturesNeverRaise ==
  call.op = "_extract_patient_features" =>
    /\ call.ret.error = ""
    /\ \A i \in DOMAIN NumericKeys :
         LET answer == call.args[1][NumericKeys[i]]
         IN  IF answer.type = "int" \/ (answer.type = "str" /\ IsNumeral(answer.v))
             THEN call.ret.features[i] = [kind |-> "float", v |-> answer.v]
             ELSE call.ret.features[i] = NaN

HasPiece(text, ps) == \E i \in 1 .. Len(text) : text[i] \in ps

\* the part of a generated text between its first <final> and the </final>
\* that follows, or all of it without such a pair
Retained(output) ==
  LET open == FirstPiece(output, {"<final>"})
      close == FirstPiece(From(output, open + 1), {"</final>"})
  IN  IF open # 0 /\ close # 0 THEN SubSeq(output, open + 1, open + close - 1) ELSE output

\* a fallback sentence carries the tier and the score of the call
IsFallback(summary, final_score) ==
  /\ summary.fallback
  /\ summary.level = (IF final_score >= 70000 THEN "HIGH"
                      ELSE IF final_score >= 40000 THEN "MEDIUM" ELSE "LOW")
  /\ summary.score * 1000 <= final_score + 500
  /\ summary.score * 1000 > final_score - 500

Summarized == call.op = "_generate_summaries" /\ call.ret.error = ""

FallbackWhenEmptyOrWrongScript ==
  /\ CleanLlmOutput(call.args[2], "en") = <<>> => IsFallback(call.ret.summary_en, call.args[4])
  /\ CleanLlmOutput(call.args[3], "hi") = <<>> => IsFallback(call.ret.summary_hi, call.args[4])
  /\ ~HasPiece(Retained(call.args[3]), DevanagariPieces) =>
       IsFallback(call.ret.summary_hi, call.args[4])
  /\ call.ret.summary_en.fallback => IsFallback(call.ret.summary_en, call.args[4])
  /\ call.ret.summary_hi.fallback => IsFallback(call.ret.summary_hi, call.args[4])

\* C32 as stated: the fallback sentence is returned whenever the generated
\* text contains a reasoning artifact, whenever the sanitized text is empty,
\* and for Hindi whenever the retained text has no Devanagari character.
C32_FallbackOnAnyArtifact ==
  Summarized =>
    /\ HasPiece(call.args[2], BadFragments) => IsFallback(call.ret.summary_en, call.args[4])
    /\ HasPiece(call.args[3], BadFragments) => IsFallback(call.ret.summary_hi, call.args[4])
    /\ FallbackWhenEmptyOrWrongScript

\* C32: the fallback sentence is returned whenever the retained text (the
\* content of the first <final>...</final> pair, or the whole text without
\* one) contains a reasoning artifact, whenever the sanitized text is
\* empty, and for Hindi whenever the retained text has no Devanagari.
C32_FallbackOnRetainedArtifact ==
  Summarized =>
    /\ HasPiece(Retained(call.args[2]), BadFragments) =>
         IsFallback(call.ret.summary_en, call.args[4])
    /\ HasPiece(Retained(call.args[3]), BadFragments) =>
         IsFallback(call.ret.summary_hi, call.args[4])
    /\ FallbackWhenEmptyOrWrongScript

C32_Witness ==
  /\ Summarized
  /\ call.args[3] = <<"<final>", "Risk is high.", "</final>">>
  /\ call.args[4] = 82000
  /\ call.ret.summary_hi = [fallback |-> TRUE, text |-> <<>>, level |-> "HIGH", score |-> 82]
  /\ ~call.ret.summary_en.fallback

\* the step in which handler w answers SUCCESS
AnswersSuccess(w) == pc[w] = "write" /\ pc'[w] = "idle" /\ resp'.status = "SUCCESS"

\* C33: when a request for target version T is answered SUCCESS the stored
\* model_version is T, and a request delivered for a record whose stored
\* state is SUCCESS is answered SKIP_ALREADY_DONE without a new claim,
\* whatever the model_version and target_model_version of the service.
C33_SuccessStoresTargetVersion ==
  [][\A w \in Workers :
       /\ AnswersSuccess(w) =>
            StoredVersion(store'[req[w].patient_id]) = <<req[w].target_model_version>>
       /\ (ClaimReturns(w) /\ Status(store[req[w].patient_id]) = <<"SUCCESS">>) =>
            ClaimResult(w) = "SKIP_ALREADY_DONE"]_vars

\* the step in which handler w makes its terminal write
TerminalWrite(w) == pc[w] \in {"write", "except"} /\ pc'[w] = "idle"

\* C34: a terminal write made after the record was claimed for another
\* target version leaves the stored AI-result as the newer claim made it.
C34_StaleWriteHasNoEffect ==
  [][\A w \in Workers :
       ( /\ TerminalWrite(w)
         /\ store[req[w].patient_id].exists
         /\ StoredVersion(store[req[w].patient_id]) # <<req[w].target_model_version>> ) =>
           store'[req[w].patient_id].ai = store[req[w].patient_id].ai]_vars

Ran == call.op = "run_tb_inference"

\* C37: in a success payload the risk_level is the tier of the risk_score as
\* persisted, rounded to 4 decimals.
C37_LevelIsTierOfStoredScore ==
  (Ran /\ call.ret.error = "") =>
    call.ret.risk_level = (IF call.ret.risk_score >= 70000 THEN "HIGH"
                           ELSE IF call.ret.risk_score >= 40000 THEN "MEDIUM" ELSE "LOW")

\* an answer that is absent or a number
AbsentOrNumber(answer) ==
  answer.type \in {"none", "int"} \/ (answer.type = "str" /\ IsNumeral(answer.v))

\* C38: with the capabilities returning normally the run raises nothing,
\* whichever optional answers of the record are absent.
C38_AbsentFieldsStillSucceed ==
  (Ran /\ \A i \in DOMAIN NumericKeys : AbsentOrNumber(call.args[1][NumericKeys[i]])) =>
    call.ret.error = ""

\* the three actions of each tier
TierBlock(level) ==
  IF level = "HIGH" THEN {"HIGH_TEST_SAME_DAY", "HIGH_SOURCE_CONTROL", "HIGH_PRIORITIZE"}
  ELSE IF level = "MEDIUM" THEN {"MEDIUM_TEST_24_48H", "MEDIUM_MASK_HYGIENE", "MEDIUM_ESCALATE"}
  ELSE {"LOW_MONITOR_2_WEEKS", "LOW_COUGH_HYGIENE", "LOW_FAST_TRACK"}

LongCough(doc) ==
  \/ doc.clinical.cough_duration_days # <<>> /\ doc.clinical.cough_duration_days[1] >= 14
  \/ doc.clinical.cough_duration_days = <<>> /\ "COUGH" \in doc.symptom_codes

\* C39: the cut to 5 removes neither the urgent referral nor an action of the
\* tier nor the persistent-cough action; it removes the document-vitals
\* action, the last of the 6 entries, exactly when a red flag, the
\* persistent-cough action and the document-vitals action all apply.
C39_OnlyVitalsDropped ==
  /\ BeforeReturn =>
       /\ Len(call.ret[2].en) <= 6
       /\ Len(call.ret[2].en) = 6 <=>
            /\ RedFlag(call.args[1])
            /\ Has(call.ret[2].en, "PERSISTENT_COUGH_2_WEEKS")
            /\ VitalsToDocument(call.args[1])
       /\ Len(call.ret[2].en) = 6 => call.ret[2].en[6][2] = "DOCUMENT_VITALS"
  /\ Returned =>
       LET en == call.ret[2].en
           hi == call.ret[2].hi
           doc == call.args[1]
           six == /\ RedFlag(doc)
                  /\ LongCough(doc) /\ call.ret[1] # "LOW"
                  /\ VitalsToDocument(doc)
       IN  /\ RedFlag(doc) => Has(en, "URGENT_REFERRAL") /\ Has(hi, "URGENT_REFERRAL")
           /\ \A id \in TierBlock(call.ret[1]) : Has(en, id) /\ Has(hi, id)
           /\ (LongCough(doc) /\ call.ret[1] # "LOW") =>
                Has(en, "PERSISTENT_COUGH_2_WEEKS") /\ Has(hi, "PERSISTENT_COUGH_2_WEEKS")
           /\ (VitalsToDocument(doc) /\ ~Has(en, "DOCUMENT_VITALS")) <=> six
           /\ (VitalsToDocument(doc) /\ ~Has(hi, "DOCUMENT_VITALS")) <=> six

C39_Witness ==
  /\ Returned
  /\ RedFlag(call.args[1])
  /\ VitalsToDocument(call.args[1])
  /\ Len(call.ret[2].en) = 5
  /\ Ids(call.ret[2].en)[1] = "URGENT_REFERRAL"
  /\ Ids(call.ret[2].en)[5] = "PERSISTENT_COUGH_2_WEEKS"
  /\ ~Has(call.ret[2].en, "DOCUMENT_VITALS")

\* C36: the failure path creates no record: when the record is absent at the
\* moment the except clause records the failure, it is absent afterwards.
C36_FailureCreatesNoRecord ==
  [][\A w \in Workers :
       (pc[w] = "except" /\ pc'[w] = "idle" /\ ~store[req[w].patient_id].exists) =>
         ~store'[req[w].patient_id].exists]_vars

\* C40: with the dummy AI disabled, a sync of an existing record whose stored
\* state is PROCESSING or SUCCESS leaves its AI-result as it was.
C40_SyncKeepsAiResult ==
  [][( /\ call'.n = call.n + 1
       /\ call'.op = "sync_patients"
       /\ ~call'.args[3]
       /\ store[call'.args[1]].exists
       /\ Status(store[call'.args[1]]) \in {<<"PROCESSING">>, <<"SUCCESS">>} ) =>
         store'[call'.args[1]].ai = store[call'.args[1]].ai]_vars

\* a request for record p was delivered and the record has an audio reference
\* that resolves
DeliveredFor(p) ==
  /\ \E w \in Workers : pc[w] = "claim" /\ req[w].patient_id = p
  /\ store[p].exists
  /\ store[p].audio # <<>>

====
